---------------------------- MODULE Spec2Model ----------------------------
(***************************************************************************)
(* Model of the roommate-matching application.                             *)
(*                                                                         *)
(* Part 1: the match scorer of src/src/pages/SwipeMatch.jsx                *)
(* (calculateMatchScore, asArrayOfLowercase, toNumber).                    *)
(*                                                                         *)
(* JavaScript numbers are modelled as exact rationals extended with NaN,   *)
(* +Infinity and -Infinity (the IEEE special values the scorer can meet);  *)
(* the rounding error of binary floating point is not modelled.            *)
(* JavaScript strings are modelled as sequences of characters.             *)
(***************************************************************************)
EXTENDS Integers, Sequences, FiniteSets, Bags, TLC

(***************************************************************************)
(* Bounds of the model.                                                    *)
(***************************************************************************)
\* numeric budgets range over -MaxBudget .. MaxBudget
MaxBudget == 4
\* neighborhood / preference arrays have at most MaxListLen elements
MaxListLen == 2

(***************************************************************************)
(* JavaScript numbers.                                                     *)
(***************************************************************************)
RECURSIVE GCD(_, _)
GCD(a, b) == IF b = 0 THEN a ELSE GCD(b, a % b)

AbsInt(i) == IF i < 0 THEN -i ELSE i

\* the finite number n/d (d # 0), in lowest terms with a positive denominator
Fin(n, d) ==
    LET g == GCD(AbsInt(n), AbsInt(d))
        s == IF d < 0 THEN -1 ELSE 1
    IN  [k |-> "fin", n |-> (s * n) \div g, d |-> (s * d) \div g]

NaN == [k |-> "nan", n |-> 0, d |-> 1]
Infinity == [k |-> "inf", n |-> 1, d |-> 1]
NegInfinity == [k |-> "inf", n |-> -1, d |-> 1]
\* the value null, as returned by toNumber
Null == [k |-> "null", n |-> 0, d |-> 1]

Sign(a) == IF a.n > 0 THEN 1 ELSE IF a.n < 0 THEN -1 ELSE 0
SignedInf(s) == IF s < 0 THEN NegInfinity ELSE Infinity

\* a < b, for numbers that are not NaN
NumLess(a, b) ==
    IF a.k = "inf" THEN a.n < 0 /\ ~(b.k = "inf" /\ b.n < 0)
    ELSE IF b.k = "inf" THEN b.n > 0
    ELSE a.n * b.d < b.n * a.d

NumNeg(a) == IF a.k = "nan" THEN NaN ELSE [a EXCEPT !.n = -a.n]

\* a + b
NumAdd(a, b) ==
    IF a.k = "nan" \/ b.k = "nan" THEN NaN
    ELSE IF a.k = "inf" /\ b.k = "inf" THEN (IF a.n = b.n THEN a ELSE NaN)
    ELSE IF a.k = "inf" THEN a
    ELSE IF b.k = "inf" THEN b
    ELSE Fin(a.n * b.d + b.n * a.d, a.d * b.d)

\* a - b
NumSub(a, b) == NumAdd(a, NumNeg(b))

\* a * b
NumMul(a, b) ==
    IF a.k = "nan" \/ b.k = "nan" THEN NaN
    ELSE IF a.k = "inf" \/ b.k = "inf"
         THEN (IF Sign(a) = 0 \/ Sign(b) = 0 THEN NaN
               ELSE SignedInf(Sign(a) * Sign(b)))
    ELSE Fin(a.n * b.n, a.d * b.d)

\* a / b (a zero divisor is +0)
NumDiv(a, b) ==
    IF a.k = "nan" \/ b.k = "nan" THEN NaN
    ELSE IF a.k = "inf" /\ b.k = "inf" THEN NaN
    ELSE IF a.k = "inf" THEN SignedInf(IF Sign(b) < 0 THEN -Sign(a) ELSE Sign(a))
    ELSE IF b.k = "inf" THEN Fin(0, 1)
    ELSE IF b.n = 0 THEN (IF a.n = 0 THEN NaN ELSE SignedInf(Sign(a)))
    ELSE Fin(a.n * b.d, a.d * b.n)

MathAbs(a) == IF a.k = "nan" THEN NaN ELSE [a EXCEPT !.n = AbsInt(a.n)]

MathMax(a, b) ==
    IF a.k = "nan" \/ b.k = "nan" THEN NaN
    ELSE IF NumLess(a, b) THEN b ELSE a

MathMin(a, b) ==
    IF a.k = "nan" \/ b.k = "nan" THEN NaN
    ELSE IF NumLess(b, a) THEN b ELSE a

\* Math.round: the nearest integer, halves rounded towards +Infinity
MathRound(a) ==
    IF a.k = "fin" THEN Fin((2 * a.n + a.d) \div (2 * a.d), 1) ELSE a

Int2Num(i) == Fin(i, 1)

\* the truthiness of a number or null: null, 0 and NaN are falsy
Truthy(a) == a.k # "null" /\ a.k # "nan" /\ ~(a.k = "fin" /\ a.n = 0)

(***************************************************************************)
(* JavaScript strings: sequences of characters.  "dotless_i" stands for    *)
(* the Turkish letter U+0131 of "Kizilay" and "Tunali" as the application  *)
(* spells them (CreateProfile.jsx, PRESET_NEIGHBORHOODS).                  *)
(***************************************************************************)
IsSpace(c) == c = " "

\* String.prototype.toLowerCase on one character: the upper-case I maps to
\* the dotted i; the dotless i is already lower case
LowerChar(c) ==
    CASE c = "I" -> "i"
      [] c = "B" -> "b"
      [] c = "A" -> "a"
      [] c = "C" -> "c"
      [] c = "D" -> "d"
      [] c = "E" -> "e"
      [] c = "K" -> "k"
      [] c = "R" -> "r"
      [] c = "T" -> "t"
      [] c = "U" -> "u"
      [] OTHER -> c

ToLowerCase(s) == [i \in DOMAIN s |-> LowerChar(s[i])]

RECURSIVE TrimStart(_)
TrimStart(s) ==
    IF s # <<>> /\ IsSpace(Head(s)) THEN TrimStart(Tail(s)) ELSE s

RECURSIVE TrimEnd(_)
TrimEnd(s) ==
    IF s # <<>> /\ IsSpace(s[Len(s)])
    THEN TrimEnd(SubSeq(s, 1, Len(s) - 1)) ELSE s

\* String.prototype.trim
Trim(s) == TrimEnd(TrimStart(s))

IsDigit(c) == c \in {"0", "1", "2", "3", "4", "5", "6", "7", "8", "9"}

DigitValue(c) ==
    CASE c = "0" -> 0 [] c = "1" -> 1 [] c = "2" -> 2 [] c = "3" -> 3
      [] c = "4" -> 4 [] c = "5" -> 5 [] c = "6" -> 6 [] c = "7" -> 7
      [] c = "8" -> 8 [] c = "9" -> 9

RECURSIVE DecimalValue(_)
DecimalValue(s) ==
    IF s = <<>> THEN 0
    ELSE 10 * DecimalValue(SubSeq(s, 1, Len(s) - 1)) + DigitValue(s[Len(s)])

\* Number(string): blank is 0, a run of digits is its decimal value,
\* anything else is NaN
StringToNumber(s) ==
    LET t == Trim(s)
    IN  IF t = <<>> THEN Int2Num(0)
        ELSE IF \A i \in DOMAIN t : IsDigit(t[i]) THEN Int2Num(DecimalValue(t))
        ELSE NaN

(***************************************************************************)
(* JavaScript values of the profile fields the scorer reads.               *)
(* A budget value is undefined (field absent), null, a number or a string; *)
(* a list value is undefined, null, a string (some non-array value) or an  *)
(* array of strings.                                                       *)
(***************************************************************************)
BUndefined == [t |-> "undefined", num |-> NaN, str |-> <<>>]
BNull == [t |-> "null", num |-> NaN, str |-> <<>>]
BNumber(x) == [t |-> "number", num |-> x, str |-> <<>>]
BString(s) == [t |-> "string", num |-> NaN, str |-> s]

LUndefined == [t |-> "undefined", items |-> <<>>]
LNull == [t |-> "null", items |-> <<>>]
LString == [t |-> "string", items |-> <<>>]
LArray(a) == [t |-> "array", items |-> a]

(***************************************************************************)
(* The scorer: src/src/pages/SwipeMatch.jsx, lines 360-423.                *)
(***************************************************************************)
BUDGET_WEIGHT == 40
BUDGET_NEUTRAL == 20
NEIGHBORHOOD_WEIGHT == 35
NEIGHBORHOOD_NEUTRAL == 18
PREFERENCE_WEIGHT == 25
PREFERENCE_NEUTRAL == 12
SCORE_MAX == 100

\* !value, for a budget value
BudgetFalsy(value) ==
    \/ value.t \in {"undefined", "null"}
    \/ value.t = "number" /\ ~Truthy(value.num)
    \/ value.t = "string" /\ value.str = <<>>

\* value !== 0
NotStrictlyZero(value) ==
    ~(value.t = "number" /\ value.num.k = "fin" /\ value.num.n = 0)

\* Number(value), for a value that is a number or a string
Number(value) ==
    IF value.t = "number" THEN value.num ELSE StringToNumber(value.str)

\* toNumber(value): the number, or null
toNumber(value) ==
    IF BudgetFalsy(value) /\ NotStrictlyZero(value) THEN Null
    ELSE LET n == Number(value)
         IN  IF n.k = "nan" THEN Null ELSE n

\* asArrayOfLowercase with the toLowerCase() call forgotten
asArrayOfLowercase_NoLower(value) ==
    IF value.t # "array" THEN <<>>
    ELSE SelectSeq([i \in DOMAIN value.items |-> Trim(value.items[i])],
                   LAMBDA v : Len(v) > 0)

\* asArrayOfLowercase(value): the trimmed, lower-cased, non-blank labels
asArrayOfLowercase(value) ==
    IF value.t # "array" THEN <<>>
    ELSE SelectSeq([i \in DOMAIN value.items |->
                        ToLowerCase(Trim(value.items[i]))],
                   LAMBDA v : Len(v) > 0)

\* Array.prototype.includes
Includes(arr, x) == \E i \in DOMAIN arr : arr[i] = x

\* BudgetScore with the ratio taken as diff / maxDiff, the "1 -" forgotten
BudgetScore_NoComplement(me, other) ==
    LET myBudget == toNumber(me.budget)
        theirBudget == toNumber(other.budget)
    IN  IF Truthy(myBudget) /\ Truthy(theirBudget)
        THEN LET diff == MathAbs(NumSub(myBudget, theirBudget))
                 maxDiff == NumMul(myBudget, Fin(1, 2))
                 ratio == MathMax(Int2Num(0), NumDiv(diff, maxDiff))
             IN  NumMul(ratio, Int2Num(BUDGET_WEIGHT))
        ELSE Int2Num(BUDGET_NEUTRAL)

\* BudgetScore with || written for && in the guard (null counts as 0 in the
\* arithmetic, as in JavaScript)
BudgetScore_Or(me, other) ==
    LET myBudget == toNumber(me.budget)
        theirBudget == toNumber(other.budget)
    IN  IF Truthy(myBudget) \/ Truthy(theirBudget)
        THEN LET diff == MathAbs(NumSub(myBudget, theirBudget))
                 maxDiff == NumMul(myBudget, Fin(1, 2))
                 ratio == MathMax(Int2Num(0),
                                  NumSub(Int2Num(1), NumDiv(diff, maxDiff)))
             IN  NumMul(ratio, Int2Num(BUDGET_WEIGHT))
        ELSE Int2Num(BUDGET_NEUTRAL)

\* 1) budget similarity
BudgetScore(me, other) ==
    LET myBudget == toNumber(me.budget)
        theirBudget == toNumber(other.budget)
    IN  IF Truthy(myBudget) /\ Truthy(theirBudget)
        THEN LET diff == MathAbs(NumSub(myBudget, theirBudget))
                 maxDiff == NumMul(myBudget, Fin(1, 2))
                 ratio == MathMax(Int2Num(0),
                                  NumSub(Int2Num(1), NumDiv(diff, maxDiff)))
             IN  NumMul(ratio, Int2Num(BUDGET_WEIGHT))
        ELSE Int2Num(BUDGET_NEUTRAL)

\* NeighborhoodScore with the shared labels counted as a set intersection
NeighborhoodScore_SetCount(me, other) ==
    LET myNeighborhoods == asArrayOfLowercase(me.neighborhoods)
        theirNeighborhoods == asArrayOfLowercase(other.neighborhoods)
    IN  IF Len(myNeighborhoods) > 0 /\ Len(theirNeighborhoods) > 0
        THEN LET shared == {myNeighborhoods[i] : i \in DOMAIN myNeighborhoods}
                             \cap
                           {theirNeighborhoods[i] : i \in DOMAIN theirNeighborhoods}
                 ratio == MathMin(NumDiv(Int2Num(Cardinality(shared)),
                                         Int2Num(Len(myNeighborhoods))),
                                  Int2Num(1))
             IN  NumMul(ratio, Int2Num(NEIGHBORHOOD_WEIGHT))
        ELSE Int2Num(NEIGHBORHOOD_NEUTRAL)

\* NeighborhoodScore with || written for && in the guard
NeighborhoodScore_Or(me, other) ==
    LET myNeighborhoods == asArrayOfLowercase(me.neighborhoods)
        theirNeighborhoods == asArrayOfLowercase(other.neighborhoods)
    IN  IF Len(myNeighborhoods) > 0 \/ Len(theirNeighborhoods) > 0
        THEN LET shared == SelectSeq(myNeighborhoods,
                               LAMBDA n : Includes(theirNeighborhoods, n))
                 ratio == MathMin(NumDiv(Int2Num(Len(shared)),
                                         Int2Num(Len(myNeighborhoods))),
                                  Int2Num(1))
             IN  NumMul(ratio, Int2Num(NEIGHBORHOOD_WEIGHT))
        ELSE Int2Num(NEIGHBORHOOD_NEUTRAL)

\* 2) shared neighborhoods
NeighborhoodScore(me, other) ==
    LET myNeighborhoods == asArrayOfLowercase(me.neighborhoods)
        theirNeighborhoods == asArrayOfLowercase(other.neighborhoods)
    IN  IF Len(myNeighborhoods) > 0 /\ Len(theirNeighborhoods) > 0
        THEN LET shared == SelectSeq(myNeighborhoods,
                               LAMBDA n : Includes(theirNeighborhoods, n))
                 ratio == MathMin(NumDiv(Int2Num(Len(shared)),
                                         Int2Num(Len(myNeighborhoods))),
                                  Int2Num(1))
             IN  NumMul(ratio, Int2Num(NEIGHBORHOOD_WEIGHT))
        ELSE Int2Num(NEIGHBORHOOD_NEUTRAL)

\* PreferenceScore with the neighborhood block's neutral value left in after
\* copying the block
PreferenceScore_CopiedNeutral(me, other) ==
    LET myPrefs == asArrayOfLowercase(me.roommatePreferences)
        theirPrefs == asArrayOfLowercase(other.roommatePreferences)
    IN  IF Len(myPrefs) > 0 /\ Len(theirPrefs) > 0
        THEN LET sharedPrefs == SelectSeq(myPrefs,
                                    LAMBDA q : Includes(theirPrefs, q))
                 ratio == MathMin(NumDiv(Int2Num(Len(sharedPrefs)),
                                         Int2Num(Len(myPrefs))),
                                  Int2Num(1))
             IN  NumMul(ratio, Int2Num(PREFERENCE_WEIGHT))
        ELSE Int2Num(NEIGHBORHOOD_NEUTRAL)

\* PreferenceScore with the else branch (the neutral value) left out
PreferenceScore_NoNeutral(me, other) ==
    LET myPrefs == asArrayOfLowercase(me.roommatePreferences)
        theirPrefs == asArrayOfLowercase(other.roommatePreferences)
    IN  IF Len(myPrefs) > 0 /\ Len(theirPrefs) > 0
        THEN LET sharedPrefs == SelectSeq(myPrefs,
                                    LAMBDA q : Includes(theirPrefs, q))
                 ratio == MathMin(NumDiv(Int2Num(Len(sharedPrefs)),
                                         Int2Num(Len(myPrefs))),
                                  Int2Num(1))
             IN  NumMul(ratio, Int2Num(PREFERENCE_WEIGHT))
        ELSE Int2Num(0)

\* 3) roommate preferences overlap
PreferenceScore(me, other) ==
    LET myPrefs == asArrayOfLowercase(me.roommatePreferences)
        theirPrefs == asArrayOfLowercase(other.roommatePreferences)
    IN  IF Len(myPrefs) > 0 /\ Len(theirPrefs) > 0
        THEN LET sharedPrefs == SelectSeq(myPrefs,
                                    LAMBDA q : Includes(theirPrefs, q))
                 ratio == MathMin(NumDiv(Int2Num(Len(sharedPrefs)),
                                         Int2Num(Len(myPrefs))),
                                  Int2Num(1))
             IN  NumMul(ratio, Int2Num(PREFERENCE_WEIGHT))
        ELSE Int2Num(PREFERENCE_NEUTRAL)

\* the clamp and the rounding of the return statement
ClampRound(score) ==
    MathMax(Int2Num(0), MathMin(Int2Num(SCORE_MAX), MathRound(score)))

\* calculateMatchScore(me, other)
calculateMatchScore(me, other) ==
    ClampRound(NumAdd(NumAdd(BudgetScore(me, other),
                             NeighborhoodScore(me, other)),
                      PreferenceScore(me, other)))

(***************************************************************************)
(* Faults: the TypeError a call can raise.  Number(), String(), trim() and *)
(* toLowerCase() raise nothing on numbers and strings; value.map raises    *)
(* when value is not an array.                                             *)
(***************************************************************************)
\* !value, for a list value (the non-array value stands for a truthy one)
ListFalsy(value) == value.t \in {"undefined", "null"}

\* value.map(...) raises "value.map is not a function"
MapThrows(value) == value.t # "array"

\* asArrayOfLowercase with the Array.isArray check forgotten
asArrayOfLowercaseThrows_NoArrayCheck(value) ==
    IF ListFalsy(value) THEN FALSE ELSE MapThrows(value)

\* whether asArrayOfLowercase(value) raises
asArrayOfLowercaseThrows(value) ==
    IF ListFalsy(value) THEN FALSE
    ELSE IF value.t # "array" THEN FALSE
    ELSE MapThrows(value)

\* whether calculateMatchScore(me, other) raises
calculateMatchScoreThrows(me, other) ==
    \/ asArrayOfLowercaseThrows(me.neighborhoods)
    \/ asArrayOfLowercaseThrows(other.neighborhoods)
    \/ asArrayOfLowercaseThrows(me.roommatePreferences)
    \/ asArrayOfLowercaseThrows(other.roommatePreferences)

(***************************************************************************)
(* State: one call of the scorer.                                          *)
(*   me, other     the two profile records passed to calculateMatchScore   *)
(*   sub           the three terms added to the local variable score       *)
(*   matchScore    the value returned (null before the call returns)       *)
(*   fault         whether the call raised instead of returning            *)
(*   pc            "call" before the call, "done" after it returned        *)
(***************************************************************************)
VARIABLES me, other, sub, matchScore, fault, pc

scoreVars == <<me, other, sub, matchScore, fault, pc>>

\* the state of the ranker, described with the ranker below
VARIABLES records, arrays, myProfile, others, ranked, rankPc

rankVars == <<records, arrays, myProfile, others, ranked, rankPc>>

\* the state of Firebase, described with the store below
VARIABLES users, likes, currentUser, route

firebaseVars == <<users, likes, currentUser, route>>

\* the state of the SwipeMatch page, described with the page below
VARIABLES swipePc, myData, profiles, currentIndex, loading, swipeErrorMsg,
          lastAction, pendingLike

swipeVars == <<swipePc, myData, profiles, currentIndex, loading,
               swipeErrorMsg, lastAction, pendingLike>>

\* the state of the Matches / Messages page, described with the page below
VARIABLES page, matchesPc, iLikedSet, likedMeSet, mutualIds, results, matches,
          matchesLoading, matchesErrorMsg, storeWritten

matchesVars == <<page, matchesPc, iLikedSet, likedMeSet, mutualIds, results,
                 matches, matchesLoading, matchesErrorMsg, storeWritten>>

\* the state of one call of getChatId, described with the function below
VARIABLES uid1, uid2, chatId, chatPc

chatVars == <<uid1, uid2, chatId, chatPc>>

\* the state of the sign-up form, described with handleSignup below
VARIABLES signUpEmail, signUpPassword, signupErrorMsg, signupLoading,
          createRequest, signupRoute, signupPc

signupVars == <<signUpEmail, signUpPassword, signupErrorMsg, signupLoading,
                createRequest, signupRoute, signupPc>>

\* the Chat page, and the collections chats and chats/{id}/messages
VARIABLES mounted, otherUid, chatIdState, otherProfile, messages, newMessage,
          chatLoading, chatErrorMsg, effects, chats, messageDocs, pendingSend

chatPageVars == <<mounted, otherUid, chatIdState, otherProfile, messages,
                  newMessage, chatLoading, chatErrorMsg, effects, chats,
                  messageDocs, pendingSend>>

\* the accounts of the authentication service, the signed-in user's cached
\* emailVerified, the routes of the document's history, the name field of
\* the profile form and the message of the page shown
VARIABLES accounts, verifiedAccounts, emailVerified, visited, traversed, name,
          pageMessage

accountVars == <<accounts, verifiedAccounts, emailVerified, visited, traversed,
                 name, pageMessage>>

\* a protected page that is opened: its loader and its store accesses
VARIABLES openPage, partnerUid, guardPc, pageLoading, storeOps

guardVars == <<openPage, partnerUid, guardPc, pageLoading, storeOps>>

vars == <<scoreVars, rankVars, firebaseVars, swipeVars, matchesVars, chatVars,
          signupVars, chatPageVars, accountVars, guardVars>>

(***************************************************************************)
(* The inputs of the model.                                                *)
(***************************************************************************)
\* budget strings: empty, blank, not a number, and two numerals
BudgetStrings == {<<>>, <<" ">>, <<"x">>, <<"2">>, <<" ", "4", " ">>}

BudgetValues ==
    {BUndefined, BNull}
        \cup {BNumber(Int2Num(i)) : i \in (-MaxBudget) .. MaxBudget}
        \cup {BNumber(NaN), BNumber(Infinity), BNumber(NegInfinity)}
        \cup {BString(s) : s \in BudgetStrings}

\* labels: a word, its upper-case form, the word spelt with the dotless i,
\* the word padded with blanks, a blank label and another word
NeighborhoodLabels ==
    {<<"i">>, <<"I">>, <<"dotless_i">>, <<" ", "i", " ">>, <<" ">>, <<"b">>}

PreferenceLabels == {<<"b">>, <<"B", " ">>, <<" ">>, <<"i">>}

\* the arrays of at most MaxListLen labels
ArraysOf(labels) ==
    UNION {[1 .. n -> labels] : n \in 0 .. MaxListLen}

ListValues(labels) ==
    {LUndefined, LNull, LString} \cup {LArray(a) : a \in ArraysOf(labels)}

Profile(b, n, p) ==
    [budget |-> b, neighborhoods |-> n, roommatePreferences |-> p]

\* a few values of each field, for the fields a family of inputs keeps fixed
FewBudgets == {BUndefined, BNumber(Int2Num(2)), BNumber(Int2Num(3))}
FewLists == {LUndefined, LArray(<<<<"i">>>>), LArray(<<<<"i">>, <<"b">>>>)}

NoSub == [budget |-> Null, neighborhoods |-> Null, preferences |-> Null]

\* every pair of budgets, with few lists
BudgetInputs ==
    \E b1 \in BudgetValues, b2 \in BudgetValues, l \in FewLists :
        /\ me = Profile(b1, l, l)
        /\ other = Profile(b2, l, l)

\* every pair of neighborhood lists, with few budgets
NeighborhoodInputs ==
    \E n1 \in ListValues(NeighborhoodLabels),
       n2 \in ListValues(NeighborhoodLabels),
       b \in {BUndefined, BNumber(Int2Num(2))} :
        /\ me = Profile(b, n1, LUndefined)
        /\ other = Profile(b, n2, LUndefined)

\* every pair of preference lists, with few budgets
PreferenceInputs ==
    \E p1 \in ListValues(PreferenceLabels),
       p2 \in ListValues(PreferenceLabels),
       b \in {BUndefined, BNumber(Int2Num(2))} :
        /\ me = Profile(b, LUndefined, p1)
        /\ other = Profile(b, LUndefined, p2)

\* all three fields varying over few values
MixedInputs ==
    \E b1 \in FewBudgets, b2 \in FewBudgets,
       n1 \in FewLists, n2 \in FewLists,
       p1 \in FewLists, p2 \in FewLists :
        /\ me = Profile(b1, n1, p1)
        /\ other = Profile(b2, n2, p2)

InitScore ==
    /\ BudgetInputs \/ NeighborhoodInputs \/ PreferenceInputs \/ MixedInputs
    /\ sub = NoSub
    /\ matchScore = Null
    /\ fault = FALSE
    /\ pc = "call"

\* the call calculateMatchScore(me, other) runs and returns
CalculateMatchScore ==
    /\ pc = "call"
    /\ sub' = [budget |-> BudgetScore(me, other),
               neighborhoods |-> NeighborhoodScore(me, other),
               preferences |-> PreferenceScore(me, other)]
    /\ matchScore' = calculateMatchScore(me, other)
    /\ fault' = calculateMatchScoreThrows(me, other)
    /\ pc' = "done"
    /\ UNCHANGED <<me, other>>

(***************************************************************************)
(* Properties of the scorer.                                               *)
(***************************************************************************)
Done == pc = "done"

\* a string that holds a numeral
IsNumeral(str) ==
    LET t == Trim(str) IN t # <<>> /\ \A i \in DOMAIN t : IsDigit(t[i])

\* a valid budget: a finite number, or a string holding a numeral
ValidBudget(value) ==
    \/ value.t = "number" /\ value.num.k = "fin"
    \/ value.t = "string" /\ IsNumeral(value.str)

\* a missing or non-numeric budget: absent, null, NaN, or a string that
\* holds no numeral
MissingBudget(value) ==
    \/ value.t \in {"undefined", "null"}
    \/ value.t = "number" /\ value.num.k = "nan"
    \/ value.t = "string" /\ ~IsNumeral(value.str)

\* the number a valid budget stands for
BudgetAmount(value) ==
    IF value.t = "number" THEN value.num
    ELSE Int2Num(DecimalValue(Trim(value.str)))

\* C1: for every viewer and candidate profile, calculateMatchScore returns an
\* integer between 0 and 100 inclusive.
C1_ScoreIsIntegerInRange ==
    Done => /\ matchScore.k = "fin"
            /\ matchScore.d = 1
            /\ matchScore.n \in 0 .. SCORE_MAX

\* the budget sub-score as the specification writes it:
\* max(0, 1 - |a - b| / (a * 0.5)) * 40
BudgetFormula(a, b) ==
    NumMul(MathMax(Int2Num(0),
                   NumSub(Int2Num(1),
                          NumDiv(MathAbs(NumSub(a, b)), NumMul(a, Fin(1, 2))))),
           Int2Num(40))

\* C2: whenever both budgets are valid numbers (0 included) the budget
\* sub-score equals max(0, 1 - |a - b| / (a * 0.5)) * 40; the neutral value 20
\* is used only when a budget is missing or not a valid number.
C2_BudgetFormulaOnAllNumbers ==
    Done /\ ValidBudget(me.budget) /\ ValidBudget(other.budget)
        => sub.budget = BudgetFormula(BudgetAmount(me.budget),
                                      BudgetAmount(other.budget))

\* C3: if both budgets are the same valid non-zero number, the budget
\* sub-score is exactly 40.
C3_EqualBudgetsScore40 ==
    Done /\ ValidBudget(me.budget) /\ ValidBudget(other.budget)
         /\ BudgetAmount(me.budget).n # 0
         /\ BudgetAmount(me.budget) = BudgetAmount(other.budget)
        => sub.budget = Int2Num(40)

C3_Witness ==
    /\ Done
    /\ me.budget = BNumber(Int2Num(-3))
    /\ other.budget = BNumber(Int2Num(-3))
    /\ sub.budget = Int2Num(40)

Labels(value) == IF value.t = "array" THEN value.items ELSE <<>>

\* every label trimmed and lower-cased
TrimmedLowerCased(value) ==
    [i \in DOMAIN Labels(value) |-> ToLowerCase(Trim(Labels(value)[i]))]

\* the labels that are not blank
NonBlank(labels) == SelectSeq(labels, LAMBDA v : v # <<>>)

\* the number of entries of mine, with multiplicity, that appear in theirs
SharedCount(mine, theirs) ==
    Cardinality({i \in DOMAIN mine : \E j \in DOMAIN theirs : theirs[j] = mine[i]})

\* min(shared / |mine|, 1) * weight when both are non-empty, else neutral
OverlapFormula(mine, theirs, weight, neutral) ==
    IF mine # <<>> /\ theirs # <<>>
    THEN NumMul(MathMin(Fin(SharedCount(mine, theirs), Len(mine)), Int2Num(1)),
                Int2Num(weight))
    ELSE Int2Num(neutral)

\* every label of mine appears in theirs
EveryLabelAppears(mine, theirs) ==
    \A i \in DOMAIN mine : \E j \in DOMAIN theirs : theirs[j] = mine[i]

\* C5 (as stated): with both lists normalized by trimming and lower-casing,
\* the neighborhood sub-score is min(shared / |viewer list|, 1) * 35 when
\* both normalized lists are non-empty, and 18 otherwise; blank labels are
\* labels like any other.
C5_Original_TrimLowerOnly ==
    Done => sub.neighborhoods =
                OverlapFormula(TrimmedLowerCased(me.neighborhoods),
                               TrimmedLowerCased(other.neighborhoods), 35, 18)

\* C5 (amended): with both lists normalized by trimming, lower-casing and
\* dropping the labels that are blank after trimming, the neighborhood
\* sub-score is min(shared / |viewer list|, 1) * 35 when both normalized
\* lists are non-empty, and 18 otherwise.
C5_NeighborhoodFormula ==
    Done => sub.neighborhoods =
                OverlapFormula(NonBlank(TrimmedLowerCased(me.neighborhoods)),
                               NonBlank(TrimmedLowerCased(other.neighborhoods)),
                               35, 18)

\* both viewer labels normalize to the same label, the candidate has it
\* padded next to a blank label: shared = 2 of 2
C5_Witness ==
    /\ Done
    /\ me.neighborhoods = LArray(<<<<"i">>, <<"I">>>>)
    /\ other.neighborhoods = LArray(<<<<" ", "i", " ">>, <<" ">>>>)
    /\ sub.neighborhoods = Int2Num(35)

\* C6 (as stated): if the viewer has neighborhoods and every one of them
\* appears in the candidate's neighborhoods (compared after trimming and
\* lower-casing), the neighborhood sub-score is exactly 35.
C6_Original_AllSharedScore35 ==
    Done /\ Labels(me.neighborhoods) # <<>>
         /\ EveryLabelAppears(TrimmedLowerCased(me.neighborhoods),
                              TrimmedLowerCased(other.neighborhoods))
        => sub.neighborhoods = Int2Num(35)

\* C6 (amended): if the viewer's neighborhoods hold at least one label that
\* is not blank, and every non-blank viewer label appears in the candidate's
\* neighborhoods (compared after trimming and lower-casing), the
\* neighborhood sub-score is exactly 35.
C6_AllSharedNonEmptyScore35 ==
    Done /\ NonBlank(TrimmedLowerCased(me.neighborhoods)) # <<>>
         /\ EveryLabelAppears(NonBlank(TrimmedLowerCased(me.neighborhoods)),
                              TrimmedLowerCased(other.neighborhoods))
        => sub.neighborhoods = Int2Num(35)

C6_Witness ==
    /\ Done
    /\ me.neighborhoods = LArray(<<<<"I">>, <<" ">>>>)
    /\ other.neighborhoods = LArray(<<<<"b">>, <<" ", "i", " ">>>>)
    /\ sub.neighborhoods = Int2Num(35)

\* C7: if either neighborhood list is empty, absent or not a list, the
\* neighborhood sub-score is exactly 18, whatever the other list holds.
C7_EmptyNeighborhoodsScore18 ==
    Done /\ (Labels(me.neighborhoods) = <<>> \/ Labels(other.neighborhoods) = <<>>)
        => sub.neighborhoods = Int2Num(18)

C7_Witness ==
    /\ Done
    /\ me.neighborhoods = LString
    /\ other.neighborhoods = LArray(<<<<"i">>, <<"b">>>>)
    /\ sub.neighborhoods = Int2Num(18)

\* C8 (as stated): the preference sub-score is 12 when either preference
\* list is empty or absent, and otherwise (shared / number of viewer
\* preferences) * 25, which is 25 when every viewer preference appears in
\* the candidate's; labels are compared after trimming and lower-casing.
C8_Original_PreferenceRule ==
    Done => sub.preferences =
                OverlapFormula(TrimmedLowerCased(me.roommatePreferences),
                               TrimmedLowerCased(other.roommatePreferences),
                               25, 12)

\* C8 (amended): with the labels that are blank after trimming dropped from
\* both lists, the preference sub-score is 12 when either list is empty or
\* absent, and otherwise (shared / number of viewer preferences) * 25, which
\* is 25 when every viewer preference appears in the candidate's.
C8_PreferenceRule ==
    LET mine == NonBlank(TrimmedLowerCased(me.roommatePreferences))
        theirs == NonBlank(TrimmedLowerCased(other.roommatePreferences))
    IN  Done =>
          /\ sub.preferences = OverlapFormula(mine, theirs, 25, 12)
          /\ mine # <<>> /\ EveryLabelAppears(mine, theirs)
                => sub.preferences = Int2Num(25)
          /\ mine = <<>> \/ theirs = <<>> => sub.preferences = Int2Num(12)

C8_Witness ==
    /\ Done
    /\ me.roommatePreferences = LArray(<<<<"b">>, <<"i">>>>)
    /\ other.roommatePreferences = LArray(<<<<"B", " ">>, <<" ">>>>)
    /\ sub.preferences = Fin(25, 2)

(***************************************************************************)
(* Changing the case or the surrounding whitespace of one label.           *)
(***************************************************************************)
\* String.prototype.toUpperCase on one character: the dotted and the dotless
\* i both have the upper-case form I
UpperChar(c) ==
    CASE c = "i" -> "I"
      [] c = "dotless_i" -> "I"
      [] c = "b" -> "B"
      [] OTHER -> c

ToUpperCase(s) == [i \in DOMAIN s |-> UpperChar(s[i])]

\* the label in upper case and in lower case and, when it is not blank,
\* with a blank added before or after it and with its blanks trimmed
Respellings(label) ==
    {ToUpperCase(label), ToLowerCase(label)}
        \cup (IF Trim(label) = <<>> THEN {}
              ELSE {<<" ">> \o label, label \o <<" ">>, Trim(label)})

\* the list values that differ from value in the spelling of one label
RespelledLists(value) ==
    UNION {{[value EXCEPT !.items[i] = r] : r \in Respellings(Labels(value)[i])} :
              i \in DOMAIN Labels(value)}

\* the profiles that differ from profile in the spelling of one label
RespelledProfiles(profile) ==
    {[profile EXCEPT !.neighborhoods = l] :
        l \in RespelledLists(profile.neighborhoods)}
      \cup
    {[profile EXCEPT !.roommatePreferences = l] :
        l \in RespelledLists(profile.roommatePreferences)}

\* C9: the score is unchanged when the letter case of a neighborhood or
\* preference label of either profile is changed, or when whitespace is
\* added around or removed from a non-blank label.
C9_ScoreIgnoresCaseAndPadding ==
    Done =>
        /\ \A m \in RespelledProfiles(me) :
               calculateMatchScore(m, other) = matchScore
        /\ \A o \in RespelledProfiles(other) :
               calculateMatchScore(me, o) = matchScore

\* a viewer with no budget, no neighborhoods and no preferences set
NothingSet(profile) ==
    /\ profile.budget.t \in {"undefined", "null"}
    /\ Labels(profile.neighborhoods) = <<>>
    /\ Labels(profile.roommatePreferences) = <<>>

\* C10: for a viewer with no budget, no neighborhoods and no roommate
\* preferences set, the score against every candidate is exactly 50.
C10_EmptyViewerScores50 ==
    Done /\ NothingSet(me) => matchScore = Int2Num(50)

C10_Witness ==
    /\ Done
    /\ NothingSet(me)
    /\ other.budget = BNumber(Int2Num(3))
    /\ other.neighborhoods = LArray(<<<<"i">>, <<"b">>>>)
    /\ other.roommatePreferences = LArray(<<<<"i">>>>)
    /\ matchScore = Int2Num(50)

\* the sum of the three sub-scores
SubScoreSum == NumAdd(NumAdd(sub.budget, sub.neighborhoods), sub.preferences)

\* r is an integer nearest to the finite number x
IsNearestInteger(r, x) == 2 * AbsInt(r * x.d - x.n) <= x.d

ClampTo100(r) == IF r < 0 THEN 0 ELSE IF r > 100 THEN 100 ELSE r

\* m is the number s rounded to a nearest integer and clamped to [0, 100]
\* (an infinite s clamps to the end of the range on its side)
RoundedAndClamped(m, s) ==
    CASE s.k = "fin" ->
           /\ m.k = "fin" /\ m.d = 1
           /\ \E r \in {s.n \div s.d, (s.n \div s.d) + 1} :
                  /\ IsNearestInteger(r, s)
                  /\ m.n = ClampTo100(r)
      [] s.k = "inf" -> m = Int2Num(IF s.n > 0 THEN 100 ELSE 0)
      [] OTHER -> FALSE

\* C11: the total score equals the sum of the budget, neighborhood and
\* preference sub-scores, rounded to the nearest integer and then clamped to
\* [0, 100]; no other term contributes.
C11_TotalIsRoundedClampedSum ==
    Done => RoundedAndClamped(matchScore, SubScoreSum)

\* the same statement on the calls whose sub-scores are all numbers
TotalIsRoundedClampedSumOfNumbers ==
    Done /\ SubScoreSum.k # "nan" => RoundedAndClamped(matchScore, SubScoreSum)

\* 20 + 18 + 12.5 = 50.5 rounds to 51
HalfRoundsUp ==
    /\ Done
    /\ SubScoreSum = Fin(101, 2)
    /\ matchScore = Int2Num(51)

\* a list value that is absent, null or not a list
NotAList(value) == value.t # "array"

NumericBudget(value) == value.t = "number" /\ value.num.k = "fin"

\* 0 <= x <= 40
BetweenZeroAndForty(x) ==
    /\ x.k = "fin"
    /\ ~NumLess(x, Int2Num(0))
    /\ ~NumLess(Int2Num(40), x)

\* C22: the budget sub-score always lies between 0 and 40 inclusive (its
\* ratio between 0 and 1) for every pair of numeric viewer and candidate
\* budgets, including zero and negative values.
C22_BudgetSubScoreInRange ==
    Done /\ NumericBudget(me.budget) /\ NumericBudget(other.budget)
        => BetweenZeroAndForty(sub.budget)

\* the same statement for a viewer budget that is not negative
BudgetSubScoreInRangeForPositiveViewer ==
    Done /\ NumericBudget(me.budget) /\ NumericBudget(other.budget)
         /\ me.budget.num.n >= 0
        => BetweenZeroAndForty(sub.budget)

\* a zero budget on either side gives the neutral 20
ZeroBudgetInRange ==
    /\ Done
    /\ me.budget = BNumber(Int2Num(0))
    /\ other.budget = BNumber(Int2Num(-2))
    /\ sub.budget = Int2Num(20)

(***************************************************************************)
(* The ranker: src/src/pages/SwipeMatch.jsx, lines 347-358.                *)
(*                                                                         *)
(* Objects live in two heaps, so that a copy can be told from the object   *)
(* it was copied from:                                                     *)
(*   records     record reference -> the record (a function on its field   *)
(*               names)                                                    *)
(*   arrays      array reference -> the sequence of record references      *)
(*   myProfile   the first argument, a record reference                    *)
(*   others      the second argument, an array reference                   *)
(*   ranked      the returned array reference, 0 before the return         *)
(*   rankPc      "call" before the call, "done" after it returned          *)
(***************************************************************************)
MaxCandidates == 3

\* { ...p, matchScore: score }
SpreadWithMatchScore_IdOnly(p, score) ==
    [f \in {"id", "matchScore"} |-> IF f = "matchScore" THEN score ELSE p[f]]

\* { ...p, matchScore: score }
SpreadWithMatchScore(p, score) ==
    [f \in DOMAIN p \cup {"matchScore"} |->
        IF f = "matchScore" THEN score ELSE p[f]]

\* the comparator (a, b) => b.matchScore - a.matchScore
CompareFn(a, b) == NumSub(b.matchScore, a.matchScore)

\* the sign sort() reads from the comparator: a NaN result counts as +0
SortCompare(a, b) ==
    LET v == CompareFn(a, b)
    IN  IF v.k = "nan" THEN 0 ELSE Sign(v)

\* whether the comparator is a consistent comparator for these records;
\* when it is not, the order sort() leaves is implementation-defined
ConsistentComparator(recs) ==
    \A a \in recs, b \in recs, c \in recs :
        /\ SortCompare(a, a) = 0
        /\ SortCompare(a, b) = 0 => SortCompare(b, a) = 0
        /\ SortCompare(a, b) = 0 /\ SortCompare(b, c) = 0
               => SortCompare(a, c) = 0
        /\ SortCompare(a, b) < 0 /\ SortCompare(b, c) < 0
               => SortCompare(a, c) < 0
        /\ SortCompare(a, b) > 0 /\ SortCompare(b, c) > 0
               => SortCompare(a, c) > 0

RECURSIVE InsertSorted(_, _, _)
\* x, which came after every element of sorted, goes behind the elements
\* that do not sort after it
InsertSorted(recs, sorted, x) ==
    IF sorted = <<>> THEN <<x>>
    ELSE IF SortCompare(recs[Head(sorted)], recs[x]) > 0
         THEN <<x>> \o sorted
         ELSE <<Head(sorted)>> \o InsertSorted(recs, Tail(sorted), x)

RECURSIVE StableSort(_, _)
\* sort() with a consistent comparator: sorted, ties in their former order
StableSort(recs, refs) ==
    IF refs = <<>> THEN <<>>
    ELSE InsertSorted(recs,
                      StableSort(recs, SubSeq(refs, 1, Len(refs) - 1)),
                      refs[Len(refs)])

\* the orders sort() can leave the array in
SortOutcomes(recs, refs) ==
    IF ConsistentComparator({recs[refs[i]] : i \in 1 .. Len(refs)})
    THEN {StableSort(recs, refs)}
    ELSE {[i \in 1 .. Len(refs) |-> refs[f[i]]] :
              f \in Permutations(1 .. Len(refs))}

\* others.sort(...) on the argument itself, with no map() before it
MapArrayRef_InPlace(src, fresh) == src

\* map() returns a new array
MapArrayRef(src, fresh) == fresh

\* the reference of the record the map callback allocates for element i
NewRecordRef(recs, i) == Cardinality(DOMAIN recs) - 1 + i

\* a profile as read from a users document, with the id loadData adds
CandidateRecord(id, profile) ==
    [f \in DOMAIN profile \cup {"id"} |-> IF f = "id" THEN id ELSE profile[f]]

RankViewers ==
    { Profile(BNumber(Int2Num(2)), LArray(<<<<"i">>>>), LArray(<<<<"b">>>>)),
      Profile(BNumber(Infinity), LArray(<<<<"i">>>>), LUndefined),
      Profile(BUndefined, LUndefined, LUndefined) }

RankCandidates ==
    { Profile(BNumber(Int2Num(2)), LArray(<<<<"i">>>>), LArray(<<<<"b">>>>)),
      Profile(BUndefined, LArray(<<<<"i">>>>), LUndefined),
      Profile(BUndefined, LArray(<<<<"b">>>>), LUndefined),
      Profile(BUndefined, LUndefined, LUndefined) }

\* reference 0 is the viewer, references 1 .. n the candidates, array 1 the
\* argument; the candidates are distinct documents, or copies of one
InitRank ==
    \E v \in RankViewers, n \in 0 .. MaxCandidates, same \in BOOLEAN :
        \E c \in [1 .. n -> RankCandidates] :
            /\ records = [r \in 0 .. n |->
                            IF r = 0 THEN v
                            ELSE CandidateRecord(
                                     IF same THEN "1" ELSE ToString(r),
                                     IF same THEN c[1] ELSE c[r])]
            /\ arrays = [a \in {1} |-> [i \in 1 .. n |-> i]]
            /\ myProfile = 0
            /\ others = 1
            /\ ranked = 0
            /\ rankPc = "call"

RankProfilesWithMatchScore ==
    /\ rankPc = "call"
    /\ LET input == arrays[others]
           n == Len(input)
           fresh == {NewRecordRef(records, i) : i \in 1 .. n}
           mappedRecs ==
               [r \in DOMAIN records \cup fresh |->
                   IF r \in fresh
                   THEN LET p == records[input[CHOOSE i \in 1 .. n :
                                               NewRecordRef(records, i) = r]]
                        IN  SpreadWithMatchScore(
                                p, calculateMatchScore(records[myProfile], p))
                   ELSE records[r]]
           mapped == [i \in 1 .. n |-> NewRecordRef(records, i)]
           result == MapArrayRef(others, Cardinality(DOMAIN arrays) + 1)
       IN  \E sorted \in SortOutcomes(mappedRecs, mapped) :
               /\ records' = mappedRecs
               /\ arrays' = [a \in DOMAIN arrays \cup {result} |->
                                IF a = result THEN sorted ELSE arrays[a]]
               /\ ranked' = result
    /\ rankPc' = "done"
    /\ UNCHANGED <<myProfile, others>>

RankDone == rankPc = "done"

\* the matchScore of the i-th entry of the array a
ScoreAt(a, i) == records[arrays[a][i]].matchScore

\* C12: rankProfilesWithMatchScore(viewer, candidates) returns exactly one
\* entry per input candidate (same length, nothing dropped, merged or
\* added); each entry keeps every field of its candidate unchanged and
\* carries matchScore = calculateMatchScore(viewer, that candidate).
C12_OneScoredEntryPerCandidate ==
    RankDone =>
        LET input == arrays[others]
            out == arrays[ranked]
        IN  /\ Len(out) = Len(input)
            /\ \E f \in Permutations(1 .. Len(input)) :
                   \A i \in 1 .. Len(input) :
                       LET p == records[input[f[i]]]
                           e == records[out[i]]
                       IN  /\ DOMAIN e = DOMAIN p \cup {"matchScore"}
                           /\ \A fld \in DOMAIN p : e[fld] = p[fld]
                           /\ e.matchScore =
                                  calculateMatchScore(records[myProfile], p)

\* three copies of one document come back as three entries; and three
\* distinct documents come back reordered
C12_Witness ==
    /\ RankDone
    /\ Len(arrays[ranked]) = 3
    /\ \/ \A i \in 1 .. 3 : records[arrays[ranked][i]].id = "1"
       \/ records[arrays[ranked][1]].id = "3"

\* a < b on numbers, false when either is NaN
ScoreLess(a, b) == a.k # "nan" /\ b.k # "nan" /\ NumLess(a, b)

SortedNonIncreasing(a) ==
    \A i \in 1 .. Len(arrays[a]), j \in 1 .. Len(arrays[a]) :
        i < j => ~ScoreLess(ScoreAt(a, i), ScoreAt(a, j))

\* entries with equal scores are in the order the map step created them,
\* which is the order of the input
StableOnTies(a) ==
    \A i \in 1 .. Len(arrays[a]), j \in 1 .. Len(arrays[a]) :
        i < j /\ ScoreAt(a, i) = ScoreAt(a, j) /\ ScoreAt(a, i).k # "nan"
            => arrays[a][i] < arrays[a][j]

\* C13: the sequence returned by rankProfilesWithMatchScore is sorted by
\* matchScore non-increasing, and candidates with equal matchScore keep the
\* relative order they had in the input (stable sort).
C13_SortedDescendingStable ==
    RankDone => SortedNonIncreasing(ranked) /\ StableOnTies(ranked)

\* the same statement on the calls where no score is NaN
SortedDescendingStableWithoutNaN ==
    RankDone /\ (\A i \in 1 .. Len(arrays[ranked]) : ScoreAt(ranked, i).k # "nan")
        => SortedNonIncreasing(ranked) /\ StableOnTies(ranked)

\* C14: ranking has no side effects on its inputs: after the call the viewer
\* profile, every candidate record and the input sequence (length and
\* order) are unchanged, and the result is a new sequence of new records.
C14_InputsUntouchedResultNew ==
    [][rankPc = "call" /\ rankPc' = "done" =>
          /\ \A r \in DOMAIN records :
                 r \in DOMAIN records' /\ records'[r] = records[r]
          /\ \A a \in DOMAIN arrays :
                 a \in DOMAIN arrays' /\ arrays'[a] = arrays[a]
          /\ ranked' \notin DOMAIN arrays
          /\ \A i \in 1 .. Len(arrays'[ranked']) :
                 arrays'[ranked'][i] \notin DOMAIN records]_vars

\* a call that had to reorder three candidates
C14_Witness ==
    /\ RankDone
    /\ ranked # others
    /\ Len(arrays[others]) = 3
    /\ records[arrays[ranked][1]].id = "2"
    /\ records[arrays[others][1]].id = "1"
    /\ ScoreLess(records[arrays[ranked][3]].matchScore,
                 records[arrays[ranked][1]].matchScore)

(***************************************************************************)
(* Firebase, as the pages use it.                                          *)
(*   users        the users collection: document id -> document data       *)
(*   likes        the likes collection: a bag of like records (documents   *)
(*                get generated ids, so equal records can coexist)         *)
(*   currentUser  auth.currentUser of the client under observation: a uid  *)
(*                or NoUser                                                *)
(*   route        the route that client is on                              *)
(***************************************************************************)
MaxLikes == 4

Uids == {"u1", "u2", "u3"}

\* getDocs on a collection returns the documents in the order of their ids
UidOrder == <<"u1", "u2", "u3">>

\* auth.currentUser is null
NoUser == "none"

\* the data handleSaveProfile writes for a user: neighborhoods and
\* roommatePreferences as arrays, and no budget field
ProfileOf(u) ==
    CASE u = "u2" -> Profile(BUndefined, LArray(<<<<"b">>>>), LArray(<<>>))
      [] OTHER -> Profile(BUndefined, LArray(<<<<"i">>>>), LArray(<<>>))

\* the record handleConnect writes
Like(from, to) == [fromUid |-> from, toUid |-> to, createdAt |-> "now"]

\* setDoc on one fixed document: the record replaces what was there
AddDoc_Overwrite(collection, record) == SetToBag({record})

\* addDoc(collection, record): a new document with a generated id
AddDoc(collection, record) == collection (+) SetToBag({record})

\* some client signed in as u saves its profile (CreateProfile)
ClientSaveProfile(u) ==
    /\ u \notin DOMAIN users
    /\ users' = [x \in DOMAIN users \cup {u} |->
                    IF x = u THEN ProfileOf(u) ELSE users[x]]
    /\ UNCHANGED <<likes, currentUser, route>>

\* some client signed in as u, with a profile, likes the candidate v its
\* SwipeMatch page displays
ClientConnect(u, v) ==
    /\ u \in DOMAIN users
    /\ v \in DOMAIN users
    /\ v # u
    /\ BagCardinality(likes) < MaxLikes
    /\ likes' = AddDoc(likes, Like(u, v))
    /\ UNCHANGED <<users, currentUser, route>>

(***************************************************************************)
(* The SwipeMatch page: src/src/pages/SwipeMatch.jsx, lines 29-132.        *)
(*   swipePc        "mount" before loadData starts, "getMy" and "getAll"   *)
(*                  while it awaits getDoc and getDocs, then "done"        *)
(*   myData         the viewer's document data, Null before it is read     *)
(*   profiles, currentIndex, loading, swipeErrorMsg, lastAction            *)
(*                  the component's state                                  *)
(*   pendingLike    the addDoc requests of handleConnect still awaited     *)
(***************************************************************************)
MaxPending == 1

\* the forEach of loadData without the test d.id !== uid
Others_Unfiltered(uid) ==
    LET ids == SelectSeq(UidOrder, LAMBDA u : u \in DOMAIN users)
    IN  [i \in 1 .. Len(ids) |-> CandidateRecord(ids[i], users[ids[i]])]

\* the array loadData builds from the snapshot of the users collection
Others(uid) ==
    LET ids == SelectSeq(UidOrder, LAMBDA u : u \in DOMAIN users /\ u # uid)
    IN  [i \in 1 .. Len(ids) |-> CandidateRecord(ids[i], users[ids[i]])]

\* the values rankProfilesWithMatchScore(my, candidates) can return
Ranked(my, candidates) ==
    LET n == Len(candidates)
        mapped == [i \in 1 .. n |->
                      SpreadWithMatchScore(
                          candidates[i],
                          calculateMatchScore(my, candidates[i]))]
    IN  {[i \in 1 .. n |-> mapped[o[i]]] :
             o \in SortOutcomes(mapped, [i \in 1 .. n |-> i])}

InitSwipe ==
    /\ users = <<>>
    /\ likes = EmptyBag
    /\ currentUser \in {"u1", NoUser}
    /\ route = "/swipe"
    /\ swipePc = "mount"
    /\ myData = Null
    /\ profiles = <<>>
    /\ currentIndex = 0
    /\ loading = TRUE
    /\ swipeErrorMsg = ""
    /\ lastAction = ""
    /\ pendingLike = <<>>

\* loadData up to its first await
LoadDataStart ==
    /\ swipePc = "mount"
    /\ IF currentUser = NoUser
       THEN /\ route' = "/"
            /\ loading' = FALSE
            /\ swipePc' = "done"
       ELSE /\ swipePc' = "getMy"
            /\ UNCHANGED <<route, loading>>
    /\ UNCHANGED <<users, likes, currentUser, myData, profiles, currentIndex,
                   swipeErrorMsg, lastAction, pendingLike>>

\* the catch and finally blocks of loadData
LoadDataFails ==
    /\ swipePc \in {"getMy", "getAll"}
    /\ swipeErrorMsg' = "Could not load roommate profiles."
    /\ loading' = FALSE
    /\ swipePc' = "done"
    /\ UNCHANGED <<firebaseVars, myData, profiles, currentIndex, lastAction,
                   pendingLike>>

\* getDoc(users/uid) resolves
LoadDataGetMy ==
    /\ swipePc = "getMy"
    /\ IF currentUser \notin DOMAIN users
       THEN /\ route' = "/create-profile"
            /\ loading' = FALSE
            /\ swipePc' = "done"
            /\ UNCHANGED myData
       ELSE /\ myData' = users[currentUser]
            /\ swipePc' = "getAll"
            /\ UNCHANGED <<route, loading>>
    /\ UNCHANGED <<users, likes, currentUser, profiles, currentIndex,
                   swipeErrorMsg, lastAction, pendingLike>>

\* getDocs(users) resolves: filter, rank, setProfiles
LoadDataGetAll ==
    /\ swipePc = "getAll"
    /\ LET candidates == Others(currentUser)
       IN  /\ swipeErrorMsg' = IF Len(candidates) = 0
                               THEN "No other verified student profiles yet."
                               ELSE swipeErrorMsg
           /\ profiles' \in Ranked(myData, candidates)
    /\ loading' = FALSE
    /\ swipePc' = "done"
    /\ UNCHANGED <<firebaseVars, myData, currentIndex, lastAction,
                   pendingLike>>

\* the page shows its buttons
SwipeRendered == route = "/swipe" /\ swipePc = "done" /\ ~loading

noMoreProfiles == currentIndex >= Len(profiles)

HandleSkip ==
    /\ SwipeRendered
    /\ ~noMoreProfiles
    /\ lastAction' = "You skipped"
    /\ currentIndex' = currentIndex + 1
    /\ UNCHANGED <<firebaseVars, swipePc, myData, profiles, loading,
                   swipeErrorMsg, pendingLike>>

\* handleConnect up to its await: the record is built and addDoc is called
HandleConnect ==
    /\ SwipeRendered
    /\ ~noMoreProfiles
    /\ currentUser # NoUser
    /\ Len(pendingLike) < MaxPending
    /\ BagCardinality(likes) + Len(pendingLike) < MaxLikes
    /\ pendingLike' = Append(pendingLike,
                             Like(currentUser, profiles[currentIndex + 1].id))
    /\ UNCHANGED <<firebaseVars, swipePc, myData, profiles, currentIndex,
                   loading, swipeErrorMsg, lastAction>>

\* addDoc resolves: the record is in the collection
HandleConnectResolves ==
    /\ pendingLike # <<>>
    /\ likes' = AddDoc(likes, Head(pendingLike))
    /\ pendingLike' = Tail(pendingLike)
    /\ lastAction' = "You liked"
    /\ currentIndex' = currentIndex + 1
    /\ UNCHANGED <<users, currentUser, route, swipePc, myData, profiles,
                   loading, swipeErrorMsg>>

\* the catch block with the advance of the success path copied into it
HandleConnectRejects_Advances ==
    /\ pendingLike # <<>>
    /\ pendingLike' = Tail(pendingLike)
    /\ lastAction' = "Could not save your like."
    /\ currentIndex' = currentIndex + 1
    /\ UNCHANGED <<firebaseVars, swipePc, myData, profiles, loading,
                   swipeErrorMsg>>

\* addDoc rejects: the catch block
HandleConnectRejects ==
    /\ pendingLike # <<>>
    /\ pendingLike' = Tail(pendingLike)
    /\ lastAction' = "Could not save your like."
    /\ UNCHANGED <<firebaseVars, swipePc, myData, profiles, currentIndex,
                   loading, swipeErrorMsg>>

\* the ids of the entries of a list of profiles
IdsOf(list) == {list[i].id : i \in 1 .. Len(list)}

\* C16: the candidate set SwipeMatch passes to the ranker holds every users
\* document whose id differs from the viewer's uid and never the viewer's
\* own record, so a user is never shown, and can never like, their own
\* profile.
C16_CandidatesAreAllOthers ==
    [][/\ /\ swipePc = "getAll" /\ swipePc' = "done"
          /\ swipeErrorMsg' # "Could not load roommate profiles."
          => /\ IdsOf(profiles') = DOMAIN users \ {currentUser}
             /\ Len(profiles') = Cardinality(DOMAIN users \ {currentUser})
             /\ \A i \in 1 .. Len(profiles') :
                    \A f \in DOMAIN users[profiles'[i].id] :
                        profiles'[i][f] = users[profiles'[i].id][f]
       /\ currentUser' \notin IdsOf(profiles')
       /\ \A i \in 1 .. Len(pendingLike') :
              pendingLike'[i].toUid # pendingLike'[i].fromUid
       /\ \A l \in BagToSet(likes') : l.toUid # l.fromUid]_vars

\* the viewer has a document, was shown the two others, and liked the first
C16_Witness ==
    /\ swipePc = "done"
    /\ currentUser \in DOMAIN users
    /\ IdsOf(profiles) = {"u2", "u3"}
    /\ BagIn(Like(currentUser, profiles[1].id), likes)
    /\ lastAction = "You liked"

\* C17: the likes collection is append-only: the only operation performed on
\* it adds one record {fromUid = the current user's uid, toUid = the id of
\* the candidate currently displayed, createdAt}; no like is modified or
\* removed, so the collection only grows.
C17_LikesAppendOnly ==
    [][/\ likes \sqsubseteq likes'
       /\ likes' # likes
          => \E l \in BagToSet(likes') :
                 /\ likes' = likes (+) SetToBag({l})
                 /\ l.toUid # l.fromUid
       /\ Len(pendingLike') > Len(pendingLike)
          => /\ ~noMoreProfiles
             /\ pendingLike' =
                    Append(pendingLike,
                           Like(currentUser, profiles[currentIndex + 1].id))
       /\ Len(pendingLike') < Len(pendingLike) /\ likes' # likes
          => likes' = likes (+) SetToBag({Head(pendingLike)})]_vars

\* the collection holds two equal records of the displayed candidate's like
\* of the viewer, and the viewer's like of that candidate
C17_Witness ==
    /\ swipePc = "done"
    /\ lastAction = "You liked"
    /\ BagCardinality(likes) = 3
    /\ CopiesIn(Like("u3", "u1"), likes) = 2
    /\ CopiesIn(Like("u1", "u3"), likes) = 1

\* C25: in SwipeMatch profiles are passed one at a time: for every
\* interleaving of Skip and Connect clicks with like writes still pending,
\* currentIndex never exceeds profiles.length, and whenever it advances it
\* advances by one, past the profile displayed, which the user skips with
\* that click or whose like is the one just written.
C25_ProfilesPassedOneAtATime ==
    [][/\ currentIndex' <= Len(profiles')
       /\ currentIndex' # currentIndex
          => /\ currentIndex' = currentIndex + 1
             /\ ~noMoreProfiles
             /\ \/ likes' = likes /\ pendingLike' = pendingLike
                \/ /\ pendingLike # <<>>
                   /\ likes' = AddDoc(likes, Head(pendingLike))
                   /\ Head(pendingLike).toUid = profiles[currentIndex + 1].id]_vars

\* C26: if writing the like fails, handleConnect leaves currentIndex and the
\* profile list unchanged, records no like and sets lastAction to the
\* failure message; handleConnect advances currentIndex only when the like
\* write has succeeded.
C26_FailedLikeKeepsCandidate ==
    [][/\ Len(pendingLike') < Len(pendingLike) /\ likes' = likes
          => /\ currentIndex' = currentIndex
             /\ profiles' = profiles
             /\ lastAction' = "Could not save your like."
       /\ Len(pendingLike') < Len(pendingLike) /\ currentIndex' # currentIndex
          => likes' = AddDoc(likes, Head(pendingLike))
       /\ Len(pendingLike') > Len(pendingLike)
          => currentIndex' = currentIndex /\ likes' = likes]_vars

\* the like of the first candidate failed: that candidate is still displayed
C26_Witness ==
    /\ swipePc = "done"
    /\ lastAction = "Could not save your like."
    /\ pendingLike = <<>>
    /\ Len(profiles) = 2
    /\ currentIndex = 0
    /\ \A l \in BagToSet(likes) : l.fromUid # currentUser

(***************************************************************************)
(* The Matches page (src/unnamed/part_001, lines 30-112) and the Messages  *)
(* page (src/src/pages/Messages.jsx, lines 24-100): the same loadMatches,  *)
(* up to the wording of one message.                                       *)
(*   page            which of the two pages is visited                     *)
(*   matchesPc       "mount" before loadMatches starts, "likesSent",       *)
(*                   "likesToMe", "profiles" while it awaits the two       *)
(*                   queries and the getDoc calls, then "done"             *)
(*   iLikedSet, likedMeSet, mutualIds, results                             *)
(*                   locals of loadMatches; mutualIds holds the ids still  *)
(*                   to be fetched (their order is the order of the like   *)
(*                   documents' generated ids)                             *)
(*   matches, matchesLoading, matchesErrorMsg                              *)
(*                   the component's state                                 *)
(*   storeWritten    history variable: some client wrote to the store      *)
(*                   after loadMatches started                             *)
(***************************************************************************)
Pages == {"Matches", "Messages"}

RouteOf(pg) == IF pg = "Matches" THEN "/matches" ELSE "/messages"

NoMutualMessage(pg) ==
    IF pg = "Matches"
    THEN "No mutual matches yet. Keep swiping and connecting with students!"
    ELSE "No mutual matches yet. Keep connecting with students on the swipe page."

\* the toUid values of the likes with fromUid = uid
ILiked(uid) ==
    {l.toUid : l \in {x \in BagToSet(likes) : x.fromUid = uid /\ x.toUid # ""}}

\* the fromUid values of the likes with toUid = uid
LikedMe(uid) ==
    {l.fromUid : l \in {x \in BagToSet(likes) : x.toUid = uid /\ x.fromUid # ""}}

\* the filter without the test likedMeSet.has(uid)
MutualIds_NoIntersection(iLiked, likedMe) == iLiked

\* [...iLikedSet].filter((uid) => likedMeSet.has(uid))
MutualIds(iLiked, likedMe) == {uid \in iLiked : uid \in likedMe}

InitMatches ==
    /\ users = <<>>
    /\ likes = EmptyBag
    /\ currentUser \in {"u1", NoUser}
    /\ page \in Pages
    /\ route = RouteOf(page)
    /\ matchesPc = "mount"
    /\ iLikedSet = {}
    /\ likedMeSet = {}
    /\ mutualIds = {}
    /\ results = <<>>
    /\ matches = <<>>
    /\ matchesLoading = TRUE
    /\ matchesErrorMsg = ""
    /\ storeWritten = FALSE

\* a write of another client, seen from the page
StoreWrite(write) ==
    /\ write
    /\ storeWritten' = (matchesPc # "mount")
    /\ UNCHANGED <<page, matchesPc, iLikedSet, likedMeSet, mutualIds, results,
                   matches, matchesLoading, matchesErrorMsg>>

\* loadMatches up to its first await
LoadMatchesStart ==
    /\ matchesPc = "mount"
    /\ IF currentUser = NoUser
       THEN /\ route' = "/"
            /\ matchesLoading' = FALSE
            /\ matchesPc' = "done"
       ELSE /\ matchesPc' = "likesSent"
            /\ UNCHANGED <<route, matchesLoading>>
    /\ UNCHANGED <<users, likes, currentUser, page, iLikedSet, likedMeSet,
                   mutualIds, results, matches, matchesErrorMsg, storeWritten>>

\* the catch and finally blocks of loadMatches
LoadMatchesFails ==
    /\ matchesPc \in {"likesSent", "likesToMe", "profiles"}
    /\ matchesErrorMsg' = "Could not load your matches."
    /\ matchesLoading' = FALSE
    /\ matchesPc' = "done"
    /\ UNCHANGED <<firebaseVars, page, iLikedSet, likedMeSet, mutualIds,
                   results, matches, storeWritten>>

\* the query fromUid == myUid resolves
LoadMatchesLikesSent ==
    /\ matchesPc = "likesSent"
    /\ iLikedSet' = ILiked(currentUser)
    /\ matchesPc' = "likesToMe"
    /\ UNCHANGED <<firebaseVars, page, likedMeSet, mutualIds, results,
                   matches, matchesLoading, matchesErrorMsg, storeWritten>>

\* the query toUid == myUid resolves; the intersection is taken
LoadMatchesLikesToMe ==
    /\ matchesPc = "likesToMe"
    /\ likedMeSet' = LikedMe(currentUser)
    /\ mutualIds' = MutualIds(iLikedSet, likedMeSet')
    /\ IF mutualIds' = {}
       THEN /\ matches' = <<>>
            /\ matchesErrorMsg' = NoMutualMessage(page)
            /\ matchesLoading' = FALSE
            /\ matchesPc' = "done"
       ELSE /\ matchesPc' = "profiles"
            /\ UNCHANGED <<matches, matchesErrorMsg, matchesLoading>>
    /\ UNCHANGED <<firebaseVars, page, iLikedSet, results, storeWritten>>

\* one getDoc(users/uid) of the loop resolves; after the last one the
\* results are set
LoadMatchesProfile ==
    /\ matchesPc = "profiles"
    /\ \E uid \in mutualIds :
           /\ mutualIds' = mutualIds \ {uid}
           /\ results' = IF uid \in DOMAIN users
                         THEN Append(results, CandidateRecord(uid, users[uid]))
                         ELSE results
    /\ IF mutualIds' = {}
       THEN /\ matches' = results'
            /\ matchesErrorMsg' =
                   IF Len(results') = 0
                   THEN "You have some likes, but we couldn't load the other profiles."
                   ELSE matchesErrorMsg
            /\ matchesLoading' = FALSE
            /\ matchesPc' = "done"
       ELSE UNCHANGED <<matches, matchesErrorMsg, matchesLoading, matchesPc>>
    /\ UNCHANGED <<firebaseVars, page, iLikedSet, likedMeSet, storeWritten>>

\* the users the current user liked, who liked the current user, and who
\* have a profile document
MutualMatches ==
    {u \in DOMAIN users :
        /\ \E l \in BagToSet(likes) : l.fromUid = currentUser /\ l.toUid = u
        /\ \E l \in BagToSet(likes) : l.fromUid = u /\ l.toUid = currentUser}

MatchesLoaded ==
    /\ matchesPc = "done"
    /\ currentUser # NoUser
    /\ matchesErrorMsg # "Could not load your matches."

\* C18: the Matches and Messages pages list exactly the users u such that a
\* like from the current user to u exists, a like from u to the current
\* user exists, and u's profile document exists; duplicate like records do
\* not change the result, and both pages compute the same set from the same
\* store contents.  (A load during which the store was written lists a
\* subset of them.)
C18_MatchesAreMutualLikes ==
    MatchesLoaded =>
        /\ IdsOf(matches) \subseteq MutualMatches
        /\ Len(matches) = Cardinality(IdsOf(matches))
        /\ \A i \in 1 .. Len(matches) :
               matches[i] = CandidateRecord(matches[i].id, users[matches[i].id])
        /\ ~storeWritten => IdsOf(matches) = MutualMatches

\* the Messages page lists u2 from a store that holds the like of u2 twice
C18_Witness ==
    /\ MatchesLoaded
    /\ page = "Messages"
    /\ ~storeWritten
    /\ CopiesIn(Like("u1", "u2"), likes) = 2
    /\ BagIn(Like("u2", "u1"), likes)
    /\ IdsOf(matches) = {"u2"}

\* the Matches page lists two users
MatchesPageListsTwo ==
    /\ MatchesLoaded
    /\ page = "Matches"
    /\ ~storeWritten
    /\ IdsOf(matches) = {"u2", "u3"}

(***************************************************************************)
(* The chat identifier: src/src/pages/Chat.jsx, lines 47-51.               *)
(*   uid1, uid2   the arguments, strings                                   *)
(*   chatId       the returned value: null or a string                     *)
(*   chatPc       "call" before the call, "done" after it returned         *)
(***************************************************************************)
MaxUidLen == 2

\* characters uids are written with
UidChars == {"0", "A", "_", "a"}

\* the UTF-16 code unit of a character
CodeUnit(c) ==
    CASE c = "0" -> 48
      [] c = "A" -> 65
      [] c = "_" -> 95
      [] c = "a" -> 97

RECURSIVE StringLess(_, _)
\* a < b on strings: by code units from the left, a proper prefix first
StringLess(a, b) ==
    IF b = <<>> THEN FALSE
    ELSE IF a = <<>> THEN TRUE
    ELSE IF CodeUnit(Head(a)) < CodeUnit(Head(b)) THEN TRUE
    ELSE IF CodeUnit(Head(a)) > CodeUnit(Head(b)) THEN FALSE
    ELSE StringLess(Tail(a), Tail(b))

ChatIdNull == [isNull |-> TRUE, str |-> <<>>]
ChatIdString(s) == [isNull |-> FALSE, str |-> s]

\* getChatId that joins its arguments in the order given
getChatId_Unordered(a, b) ==
    IF a = <<>> \/ b = <<>> THEN ChatIdNull
    ELSE ChatIdString(a \o <<"_">> \o b)

getChatId(a, b) ==
    IF a = <<>> \/ b = <<>> THEN ChatIdNull
    ELSE IF StringLess(a, b) THEN ChatIdString(a \o <<"_">> \o b)
    ELSE ChatIdString(b \o <<"_">> \o a)

UidStrings == UNION {[1 .. n -> UidChars] : n \in 0 .. MaxUidLen}

InitChatId ==
    /\ uid1 \in UidStrings
    /\ uid2 \in UidStrings
    /\ chatId = ChatIdNull
    /\ chatPc = "call"

GetChatId ==
    /\ chatPc = "call"
    /\ chatId' = getChatId(uid1, uid2)
    /\ chatPc' = "done"
    /\ UNCHANGED <<uid1, uid2>>

\* a comes before b in lexicographic order: at the first position where
\* they differ a has the smaller character, or a is a proper prefix of b
LexBefore(a, b) ==
    \E k \in 0 .. Len(a) :
        /\ k <= Len(b)
        /\ \A i \in 1 .. k : a[i] = b[i]
        /\ \/ k = Len(a) /\ k < Len(b)
           \/ k < Len(a) /\ k < Len(b) /\ CodeUnit(a[k + 1]) < CodeUnit(b[k + 1])

\* C19: the chat identifier is deterministic and order-independent: for any
\* two distinct non-empty uids a and b, getChatId(a, b) = getChatId(b, a) =
\* (lexicographically smaller uid) + "_" + (larger uid).
C19_ChatIdOrderIndependent ==
    chatPc = "done" /\ uid1 # <<>> /\ uid2 # <<>> /\ uid1 # uid2 =>
        LET smaller == IF LexBefore(uid1, uid2) THEN uid1 ELSE uid2
            larger == IF LexBefore(uid1, uid2) THEN uid2 ELSE uid1
        IN  /\ LexBefore(smaller, larger)
            /\ chatId = ChatIdString(smaller \o <<"_">> \o larger)
            /\ getChatId(uid2, uid1) = chatId

\* called with the larger uid first, and the smaller a prefix-free rival
C19_Witness ==
    /\ chatPc = "done"
    /\ uid1 = <<"a">>
    /\ uid2 = <<"A", "0">>
    /\ chatId = ChatIdString(<<"A", "0", "_", "a">>)

\* the non-empty uids of the model
NonEmptyUids == UidStrings \ {<<>>}

\* C29: getChatId is injective on unordered pairs of uids: two different
\* unordered pairs of non-empty uids never produce the same chat id, uids
\* containing "_" included.
C29_ChatIdInjective ==
    chatPc = "done" /\ uid1 # <<>> /\ uid2 # <<>> =>
        \A a \in NonEmptyUids, b \in NonEmptyUids :
            getChatId(a, b) = chatId => {a, b} = {uid1, uid2}

\* the same statement for uids without "_"
ChatIdInjectiveWithoutUnderscore ==
    chatPc = "done" /\ uid1 # <<>> /\ uid2 # <<>>
        /\ (\A i \in 1 .. Len(uid1) : uid1[i] # "_")
        /\ (\A i \in 1 .. Len(uid2) : uid2[i] # "_") =>
        \A a \in NonEmptyUids, b \in NonEmptyUids :
            /\ (\A i \in 1 .. Len(a) : a[i] # "_")
            /\ (\A i \in 1 .. Len(b) : b[i] # "_")
            /\ getChatId(a, b) = chatId
            => {a, b} = {uid1, uid2}

(***************************************************************************)
(* Sign-up: src/src/pages/AuthPage.jsx, lines 21-35 and 56-121.            *)
(*   signUpEmail, signUpPassword   the form fields, strings                *)
(*   signupErrorMsg, signupLoading the component's errorMsg and loading    *)
(*   createRequest   the createUserWithEmailAndPassword call made, or      *)
(*                   NoRequest                                             *)
(*   signupRoute     the route: "/" (the form) or "/verify"                *)
(*   signupPc        "form" before the submit; "invalid" after a failed    *)
(*                   check; "creating" and "verifying" while the two       *)
(*                   Firebase calls are awaited; "failed"; "done"          *)
(***************************************************************************)
MaxPasswordLen == 7

allowedEndings ==
    { <<".", "e", "d", "u">>,
      <<".", "e", "d", "u", ".", "p", "l">>,
      <<".", "e", "d", "u", ".", "t", "r">>,
      <<".", "a", "c", ".", "u", "k">>,
      <<".", "a", "c", ".", "j", "p">>,
      <<".", "a", "c", ".", "k", "r">>,
      <<".", "e", "d", "u", ".", "a", "u">>,
      <<".", "u", "n", "i", ".", "i", "t">> }

\* s.endsWith(ending)
EndsWith(s, ending) ==
    /\ Len(s) >= Len(ending)
    /\ SubSeq(s, Len(s) - Len(ending) + 1, Len(s)) = ending

\* isUniversityEmail without the trim and the toLowerCase
isUniversityEmail_Raw(email) ==
    \E ending \in allowedEndings : EndsWith(email, ending)

isUniversityEmail(email) ==
    LET trimmed == ToLowerCase(Trim(email))
    IN  \E ending \in allowedEndings : EndsWith(trimmed, ending)

NoRequest == [made |-> FALSE, email |-> <<>>, password |-> <<>>]

CreateUserRequest(email, password) ==
    [made |-> TRUE, email |-> email, password |-> password]

\* the message the catch block shows for an error code
SignupErrorMessage(code) ==
    CASE code = "auth/email-already-in-use" ->
             "This email is already registered."
      [] code = "auth/invalid-email" -> "This email address is not valid."
      [] code = "auth/operation-not-allowed" ->
             "Email/password sign-up is not enabled in Firebase."
      [] code = "auth/weak-password" -> "This password is too weak."
      [] OTHER -> "Could not sign up. Please try again."

AuthErrorCodes ==
    {"auth/email-already-in-use", "auth/invalid-email",
     "auth/operation-not-allowed", "auth/weak-password",
     "auth/network-request-failed"}

\* endings typed in upper case, and endings that are not allowed
OtherEndings ==
    { <<".", "E", "D", "U">>,
      <<".", "A", "c", ".", "U", "k">>,
      <<".", "E", "D", "U", ".", "T", "R">>,
      <<".", "c", "o", "m">>,
      <<".", "e", "d", "u", ".", "c", "o", "m">>,
      <<"e", "d", "u">>,
      <<".", "e", "d">>,
      <<".", "e", "d", "u", ".", "x">> }

EmailInputs ==
    {<<>>, <<" ">>}
        \cup {pre \o <<"x", "@", "u">> \o ending \o post :
                  pre \in {<<>>, <<" ">>},
                  ending \in allowedEndings \cup OtherEndings,
                  post \in {<<>>, <<" ">>}}

PasswordInputs == UNION {[1 .. n -> {"p", " "}] : n \in 0 .. MaxPasswordLen}

InitSignup ==
    /\ signUpEmail \in EmailInputs
    /\ signUpPassword \in PasswordInputs
    /\ signupErrorMsg = ""
    /\ signupLoading = FALSE
    /\ createRequest = NoRequest
    /\ signupRoute = "/"
    /\ signupPc = "form"

\* handleSignup up to its first await
HandleSignup ==
    /\ signupPc = "form"
    /\ IF Trim(signUpEmail) = <<>>
       THEN /\ signupErrorMsg' = "Please enter your university email."
            /\ signupPc' = "invalid"
            /\ UNCHANGED <<signupLoading, createRequest>>
       ELSE IF ~isUniversityEmail(signUpEmail)
       THEN /\ signupErrorMsg' =
                   "This platform is only for university students."
            /\ signupPc' = "invalid"
            /\ UNCHANGED <<signupLoading, createRequest>>
       ELSE IF Trim(signUpPassword) = <<>>
       THEN /\ signupErrorMsg' = "Please enter a password."
            /\ signupPc' = "invalid"
            /\ UNCHANGED <<signupLoading, createRequest>>
       ELSE IF Len(signUpPassword) < 6
       THEN /\ signupErrorMsg' =
                   "Password must be at least 6 characters long."
            /\ signupPc' = "invalid"
            /\ UNCHANGED <<signupLoading, createRequest>>
       ELSE /\ signupErrorMsg' = ""
            /\ signupLoading' = TRUE
            /\ createRequest' = CreateUserRequest(signUpEmail, signUpPassword)
            /\ signupPc' = "creating"
    /\ UNCHANGED <<signUpEmail, signUpPassword, signupRoute>>

\* createUserWithEmailAndPassword resolves; sendEmailVerification is called
CreateUserResolves ==
    /\ signupPc = "creating"
    /\ signupPc' = "verifying"
    /\ UNCHANGED <<signUpEmail, signUpPassword, signupErrorMsg, signupLoading,
                   createRequest, signupRoute>>

\* sendEmailVerification resolves: navigate("/verify"), then finally
SendVerificationResolves ==
    /\ signupPc = "verifying"
    /\ signupRoute' = "/verify"
    /\ signupLoading' = FALSE
    /\ signupPc' = "done"
    /\ UNCHANGED <<signUpEmail, signUpPassword, signupErrorMsg, createRequest>>

\* either call rejects: catch, then finally
SignupRejects ==
    /\ signupPc \in {"creating", "verifying"}
    /\ \E code \in AuthErrorCodes : signupErrorMsg' = SignupErrorMessage(code)
    /\ signupLoading' = FALSE
    /\ signupPc' = "failed"
    /\ UNCHANGED <<signUpEmail, signUpPassword, createRequest, signupRoute>>

\* s ends with the suffix
HasSuffix(s, suffix) == \E k \in 0 .. Len(s) : s = SubSeq(s, 1, k) \o suffix

UniversitySuffixes == allowedEndings

Submitted == signupPc # "form"

\* the claim with "the entered email ends with" taken to the letter: the
\* text of the field, as typed
C20_Original_EnteredEmailEnds ==
    Submitted =>
        LET ok == /\ \E suffix \in UniversitySuffixes :
                         HasSuffix(signUpEmail, suffix)
                  /\ Len(signUpPassword) >= 6
        IN  /\ createRequest.made => ok
            /\ ~ok => ~createRequest.made /\ signupErrorMsg # ""

\* C20: sign-up is gated on a university email: handleSignup issues an
\* account-creation request only when the entered email, trimmed and
\* lower-cased, ends with one of the allowed university suffixes and the
\* password has at least 6 characters; in every other case no request is
\* made and an error message is set.  (The request is made exactly when, in
\* addition, the password is not blank, and it carries the fields as typed.)
C20_SignupGatedOnUniversityEmail ==
    Submitted =>
        LET ok == /\ \E suffix \in UniversitySuffixes :
                         HasSuffix(ToLowerCase(Trim(signUpEmail)), suffix)
                  /\ Len(signUpPassword) >= 6
        IN  /\ createRequest.made => ok
            /\ ~ok => ~createRequest.made /\ signupErrorMsg # ""
            /\ createRequest.made <=> ok /\ Trim(signUpPassword) # <<>>
            /\ createRequest.made =>
                   createRequest =
                       CreateUserRequest(signUpEmail, signUpPassword)
            /\ ~createRequest.made => signupErrorMsg # ""

\* an upper-case suffix with a space behind it, and six characters
C20_Witness ==
    /\ signupPc = "done"
    /\ signUpEmail = <<"x", "@", "u", ".", "E", "D", "U", ".", "T", "R", " ">>
    /\ Len(signUpPassword) = 6
    /\ createRequest.made
    /\ signupRoute = "/verify"

\* a refused submit: a suffix that is not allowed
SignupRefused ==
    /\ signupPc = "invalid"
    /\ signUpEmail = <<"x", "@", "u", ".", "e", "d", "u", ".", "c", "o", "m">>
    /\ Len(signUpPassword) = 6
    /\ ~createRequest.made
    /\ signupErrorMsg # ""

(***************************************************************************)
(* The Chat page: src/src/pages/Chat.jsx, lines 33-151, and its route      *)
(* /chat/:uid (App, lines 427-467 of the same file).  One visit of the     *)
(* page: the effect of lines 54-119 runs setupChat on mount and again      *)
(* whenever the uid of the route changes, every run with its own           *)
(* `unsubscribe` variable; the user types and submits messages.            *)
(***************************************************************************)
MaxEffects == 2

MaxChatLikes == 2

MaxMessages == 2

MaxPendingSend == 1

\* useParams() gave no uid
NoUid == "undefined"

\* the uid of the route
ChatPartners == Uids \cup {NoUid}

\* the state chatId before setChatId: null
NoChat == <<>>

\* what the user types into the input
MessageInputs == {<<>>, <<" ">>, <<" ", "h">>}

UidLess(a, b) ==
    \E i, j \in DOMAIN UidOrder :
       i < j /\ UidOrder[i] = a /\ UidOrder[j] = b

\* getChatId on two uids of Uids, none of which holds "_": the string
\* `${a}_${b}` is kept as the pair of its two parts
ChatDocId(a, b) == IF UidLess(a, b) THEN <<a, b>> ELSE <<b, a>>

\* one run of the effect: the uid it was started for, the chat id it
\* computed, where setupChat stands, whether its variable `unsubscribe` holds
\* a function, whether its listener is subscribed, and whether its cleanup
\* has run
Effect(uid, id, at) ==
    [otherUid |-> uid, id |-> id, at |-> at, unsubscribe |-> FALSE,
     subscribed |-> FALSE, cleaned |-> FALSE]

\* the cleanup of lines 116-118
Cleanup(e) ==
    [e EXCEPT !.cleaned = TRUE,
              !.subscribed = IF e.unsubscribe THEN FALSE ELSE @]

\* the messages of one chat, in the order of their creation
MessagesIn(docs, id) == SelectSeq(docs, LAMBDA m : m.chat = id)

\* setDoc(chatRef, data, {merge: true}) with the fields of lines 88-89
SetChatDoc(coll, id, participants) ==
    {c \in coll : c.id # id}
        \cup {[id |-> id, participants |-> participants, updatedAt |-> "now"]}

InitChat ==
    /\ users = <<>>
    /\ likes = EmptyBag
    /\ currentUser \in {"u1", NoUser}
    /\ route = "/chat"
    /\ mounted = TRUE
    /\ otherUid \in ChatPartners
    /\ chatIdState = NoChat
    /\ otherProfile = NoUid
    /\ messages = <<>>
    /\ newMessage = <<>>
    /\ chatLoading = TRUE
    /\ chatErrorMsg = ""
    /\ effects = <<>>
    /\ chats = {}
    /\ messageDocs = <<>>
    /\ pendingSend = <<>>

\* a write of another client to users or likes
ChatStoreWrite(write) ==
    /\ write
    /\ BagCardinality(likes') <= MaxChatLikes
    /\ UNCHANGED <<mounted, otherUid, chatIdState, otherProfile, messages,
                   newMessage, chatLoading, chatErrorMsg, effects, chats,
                   messageDocs, pendingSend>>

\* the effect runs for the uid v after the effects before it were cleaned
\* up: setupChat up to its first await (lines 57-73)
RunEffect(before, v) ==
    IF currentUser = NoUser
    THEN /\ route' = "/"
         /\ mounted' = FALSE
         /\ effects' = Append(before, Cleanup(Effect(v, NoChat, "returned")))
         /\ UNCHANGED <<chatIdState, chatErrorMsg, chatLoading>>
    ELSE IF v = NoUid \/ v = currentUser
    THEN /\ chatErrorMsg' = "Invalid chat partner."
         /\ chatLoading' = FALSE
         /\ effects' = Append(before, Effect(v, NoChat, "returned"))
         /\ UNCHANGED <<route, mounted, chatIdState>>
    ELSE /\ chatIdState' = ChatDocId(currentUser, v)
         /\ effects' =
               Append(before, Effect(v, ChatDocId(currentUser, v), "getDoc"))
         /\ UNCHANGED <<route, mounted, chatErrorMsg, chatLoading>>

\* the page is mounted: the effect runs for the first time
ChatMount ==
    /\ mounted
    /\ effects = <<>>
    /\ RunEffect(effects, otherUid)
    /\ UNCHANGED <<users, likes, currentUser, otherUid, otherProfile, messages,
                   newMessage, chats, messageDocs, pendingSend>>

\* the uid of the route changes while the page stays mounted: the cleanup of
\* the last run, then the effect again (dependencies [navigate, otherUid])
ParamChange(v) ==
    /\ mounted
    /\ effects # <<>>
    /\ Len(effects) < MaxEffects
    /\ v # otherUid
    /\ otherUid' = v
    /\ RunEffect([effects EXCEPT ![Len(effects)] = Cleanup(@)], v)
    /\ UNCHANGED <<users, likes, currentUser, otherProfile, messages,
                   newMessage, chats, messageDocs, pendingSend>>

\* the user leaves the page (the button of line 206, or the browser's
\* back): the component unmounts and the cleanup of the last run runs
ChatUnmount ==
    /\ mounted
    /\ effects # <<>>
    /\ mounted' = FALSE
    /\ route' = "/messages"
    /\ effects' = [effects EXCEPT ![Len(effects)] = Cleanup(@)]
    /\ UNCHANGED <<users, likes, currentUser, otherUid, chatIdState,
                   otherProfile, messages, newMessage, chatLoading,
                   chatErrorMsg, chats, messageDocs, pendingSend>>

\* getDoc resolves and setupChat goes on without the test of lines 76-80
SetupChatGetDoc_NoExistsCheck(i) ==
    /\ i \in DOMAIN effects
    /\ effects[i].at = "getDoc"
    /\ effects' = [effects EXCEPT ![i].at = "setDoc"]
    /\ otherProfile' = IF mounted THEN effects[i].otherUid ELSE otherProfile
    /\ UNCHANGED <<firebaseVars, mounted, otherUid, chatIdState, messages,
                   newMessage, chatErrorMsg, chatLoading, chats, messageDocs,
                   pendingSend>>

\* getDoc(users/otherUid) of run i resolves (lines 74-82).  A state setter
\* called for an unmounted component changes nothing.
SetupChatGetDoc(i) ==
    /\ i \in DOMAIN effects
    /\ effects[i].at = "getDoc"
    /\ IF effects[i].otherUid \notin DOMAIN users
       THEN /\ effects' = [effects EXCEPT ![i].at = "returned"]
            /\ IF mounted
               THEN /\ chatErrorMsg' =
                          "Could not load the other student's profile."
                    /\ chatLoading' = FALSE
               ELSE UNCHANGED <<chatErrorMsg, chatLoading>>
            /\ UNCHANGED otherProfile
       ELSE /\ effects' = [effects EXCEPT ![i].at = "setDoc"]
            /\ otherProfile' = IF mounted THEN effects[i].otherUid
                                          ELSE otherProfile
            /\ UNCHANGED <<chatErrorMsg, chatLoading>>
    /\ UNCHANGED <<firebaseVars, mounted, otherUid, chatIdState, messages,
                   newMessage, chats, messageDocs, pendingSend>>

\* setDoc(chats/id) of run i resolves, and the run subscribes to the
\* messages of the chat (lines 84-105)
SetupChatSetDoc(i) ==
    /\ i \in DOMAIN effects
    /\ effects[i].at = "setDoc"
    /\ chats' = SetChatDoc(chats, effects[i].id,
                           <<currentUser, effects[i].otherUid>>)
    /\ effects' = [effects EXCEPT ![i].at = "listening",
                                  ![i].unsubscribe = TRUE,
                                  ![i].subscribed = TRUE]
    /\ UNCHANGED <<firebaseVars, mounted, otherUid, chatIdState, otherProfile,
                   messages, newMessage, chatLoading, chatErrorMsg,
                   messageDocs, pendingSend>>

\* getDoc or setDoc of run i rejects: the catch block of lines 106-110
SetupChatFails(i) ==
    /\ i \in DOMAIN effects
    /\ effects[i].at \in {"getDoc", "setDoc"}
    /\ effects' = [effects EXCEPT ![i].at = "returned"]
    /\ IF mounted
       THEN chatErrorMsg' = "Could not load chat." /\ chatLoading' = FALSE
       ELSE UNCHANGED <<chatErrorMsg, chatLoading>>
    /\ UNCHANGED <<firebaseVars, mounted, otherUid, chatIdState, otherProfile,
                   messages, newMessage, chats, messageDocs, pendingSend>>

\* the listener of run i receives a snapshot (lines 98-105)
OnSnapshot(i) ==
    /\ i \in DOMAIN effects
    /\ effects[i].subscribed
    /\ mounted
    /\ messages # MessagesIn(messageDocs, effects[i].id) \/ chatLoading
    /\ messages' = MessagesIn(messageDocs, effects[i].id)
    /\ chatLoading' = FALSE
    /\ UNCHANGED <<firebaseVars, mounted, otherUid, chatIdState, otherProfile,
                   newMessage, chatErrorMsg, effects, chats, messageDocs,
                   pendingSend>>

\* the form is rendered once loading is false (line 153)
ChatRendered == mounted /\ ~chatLoading

\* the user types into the input (line 343)
TypeMessage(t) ==
    /\ ChatRendered
    /\ t # newMessage
    /\ newMessage' = t
    /\ UNCHANGED <<firebaseVars, mounted, otherUid, chatIdState, otherProfile,
                   messages, chatLoading, chatErrorMsg, effects, chats,
                   messageDocs, pendingSend>>

\* the document handleSend builds (lines 139-144)
MessageDoc(id, text, from, to) ==
    [chat |-> id, text |-> text, fromUid |-> from, toUid |-> to,
     createdAt |-> "now"]

\* the form is submitted: handleSend up to its await (lines 128-144)
HandleSend ==
    /\ ChatRendered
    /\ Len(pendingSend) < MaxPendingSend
    /\ Len(messageDocs) + Len(pendingSend) < MaxMessages
    /\ IF \/ chatIdState = NoChat
          \/ currentUser = NoUser
          \/ otherUid = NoUid
          \/ Trim(newMessage) = <<>>
       THEN UNCHANGED pendingSend
       ELSE pendingSend' =
               Append(pendingSend,
                      MessageDoc(chatIdState, Trim(newMessage), currentUser,
                                 otherUid))
    /\ UNCHANGED <<firebaseVars, mounted, otherUid, chatIdState, otherProfile,
                   messages, newMessage, chatLoading, chatErrorMsg, effects,
                   chats, messageDocs>>

\* addDoc resolves (lines 139-146)
HandleSendResolves ==
    /\ pendingSend # <<>>
    /\ messageDocs' = Append(messageDocs, Head(pendingSend))
    /\ pendingSend' = Tail(pendingSend)
    /\ newMessage' = IF mounted THEN <<>> ELSE newMessage
    /\ UNCHANGED <<firebaseVars, mounted, otherUid, chatIdState, otherProfile,
                   messages, chatLoading, chatErrorMsg, effects, chats>>

\* addDoc rejects: the catch block of lines 147-150
HandleSendRejects ==
    /\ pendingSend # <<>>
    /\ pendingSend' = Tail(pendingSend)
    /\ chatErrorMsg' = IF mounted THEN "Could not send your message."
                                  ELSE chatErrorMsg
    /\ UNCHANGED <<firebaseVars, mounted, otherUid, chatIdState, otherProfile,
                   messages, newMessage, chatLoading, effects, chats,
                   messageDocs>>

\* C23: after the cleanup of a run of the Chat effect has run (the component
\* unmounted or the partner uid changed), no message listener started by
\* that run is subscribed, and a snapshot that changes the displayed
\* messages comes from the listener of a run that was not cleaned up; also
\* when the cleanup ran while setupChat was awaiting getDoc or setDoc.
C23_NoListenerAfterCleanup ==
    [][/\ \A i \in DOMAIN effects' :
             effects'[i].cleaned => ~effects'[i].subscribed
       /\ messages' # messages
          => \E i \in DOMAIN effects :
                /\ effects[i].subscribed
                /\ ~effects[i].cleaned
                /\ messages' = MessagesIn(messageDocs, effects[i].id)]_vars

\* the same statement for the runs whose cleanup found setupChat past its
\* awaits: their listener is unsubscribed by the cleanup
ListenerOfFinishedRunUnsubscribed ==
    [][\A i \in DOMAIN effects :
          /\ i \in DOMAIN effects'
          /\ effects[i].unsubscribe
          /\ ~effects[i].cleaned
          /\ effects'[i].cleaned
          => ~effects'[i].subscribed]_vars

\* a listener was unsubscribed by its cleanup
ListenerUnsubscribed ==
    \E i \in DOMAIN effects :
       effects[i].unsubscribe /\ effects[i].cleaned /\ ~effects[i].subscribed

\* each of a and b has liked the other
MutualLike(a, b) == BagIn(Like(a, b), likes) /\ BagIn(Like(b, a), likes)

\* C24: a chat is only opened between the current user and a mutual match:
\* every chats/{chatId} document written and every message accepted is
\* between two users each of whom has liked the other.
C24_ChatOnlyBetweenMutualMatches ==
    /\ \A c \in chats : MutualLike(c.participants[1], c.participants[2])
    /\ \A k \in DOMAIN messageDocs :
          MutualLike(messageDocs[k].fromUid, messageDocs[k].toUid)

\* a chat between two users who like each other is opened as well
ChatBetweenMutualMatches ==
    \E c \in chats : MutualLike(c.participants[1], c.participants[2])

ChatErrorMessages ==
    {"Invalid chat partner.", "Could not load the other student's profile.",
     "Could not load chat."}

\* C27: when the chat partner uid is missing, is the current user's own uid,
\* or has no profile document, setupChat returns at that point: the page, as
\* long as it is displayed, shows an error message and loading is false, no
\* chats document is written, and the run subscribes to no message stream,
\* neither then nor later.
C27_InvalidPartnerStopsSetup ==
    [][/\ Len(effects') > Len(effects)
          /\ currentUser # NoUser
          /\ otherUid' \in {NoUid, currentUser}
          => /\ chatErrorMsg' = "Invalid chat partner."
             /\ ~chatLoading'
             /\ chats' = chats
             /\ effects'[Len(effects')].at = "returned"
             /\ ~effects'[Len(effects')].subscribed
       /\ \A i \in DOMAIN effects :
             /\ effects[i].at = "getDoc"
             /\ effects'[i].at # "getDoc"
             /\ effects[i].otherUid \notin DOMAIN users
             => /\ mounted => chatErrorMsg' \in ChatErrorMessages
                /\ mounted => ~chatLoading'
                /\ chats' = chats
                /\ effects'[i].at = "returned"
                /\ ~effects'[i].subscribed
       /\ \A i \in DOMAIN effects :
             effects[i].at = "returned"
             => effects'[i].at = "returned" /\ ~effects'[i].subscribed]_vars

\* the partner has no profile document: the page shows the error and no
\* chats document exists
C27_Witness ==
    /\ mounted
    /\ Len(effects) = 1
    /\ effects[1].at = "returned"
    /\ effects[1].otherUid \notin DOMAIN users \cup {NoUid, currentUser}
    /\ chatErrorMsg = "Could not load the other student's profile."
    /\ ~chatLoading
    /\ chats = {}

\* the page shows "Invalid chat partner." for the user's own uid
OwnUidRefused ==
    /\ mounted
    /\ otherUid = currentUser
    /\ chatErrorMsg = "Invalid chat partner."
    /\ effects[Len(effects)].at = "returned"

\* C28: every message document handleSend writes has non-empty trimmed
\* text, fromUid equal to the current user's uid, toUid different from
\* fromUid, and {fromUid, toUid} equal to the two uids of the chat id of the
\* collection it is written to, after any sequence of changes of the partner
\* uid; a blank or whitespace-only input writes nothing.
C28_MessagesWellFormed ==
    \A k \in DOMAIN messageDocs \cup (Len(messageDocs) + 1
                                        .. Len(messageDocs) + Len(pendingSend)) :
       LET m == (messageDocs \o pendingSend)[k]
       IN  /\ m.text # <<>>
           /\ Trim(m.text) = m.text
           /\ m.fromUid = currentUser
           /\ m.toUid # m.fromUid
           /\ {m.fromUid, m.toUid} = {m.chat[1], m.chat[2]}

\* the same statement for a visit whose partner uid does not change
MessagesWellFormedWithoutRouteChange ==
    Len(effects) <= 1 => C28_MessagesWellFormed

\* a blank or whitespace-only input writes nothing
BlankInputWritesNothing ==
    [][Trim(newMessage) = <<>>
          => Len(pendingSend') <= Len(pendingSend)]_vars

\* a message was written
MessageWritten == messageDocs # <<>>

(***************************************************************************)
(* Accounts and the way to the profile form: handleSignup and handleSignin *)
(* (src/src/pages/AuthPage.jsx, lines 56-170), handleCheckStatus           *)
(* (src/unnamed/part_000, lines 14-36), the guards of the pages behind     *)
(* them, and handleSaveProfile (src/src/pages/CreateProfile.jsx, lines     *)
(* 184-227).  One browser document: auth.currentUser and the history of    *)
(* the routes it has shown are kept while the routes change.  The Matches, *)
(* Messages and Chat routes lead nowhere but back and are left out.        *)
(***************************************************************************)
AccountUids == {"u1", "u2"}

Routes == {"/", "/verify", "/create-profile", "/home", "/profile", "/swipe"}

\* the pages that start with `if (!auth.currentUser) navigate("/")`
GuardedRoutes == {"/create-profile", "/home", "/profile", "/swipe"}

\* the buttons that lead from one page to another: Home.jsx lines 65 and
\* 265, ProfilePreview (firebase.js lines 314 and 330), SwipeMatch.jsx 313
Links ==
    {<<"/home", "/swipe">>, <<"/home", "/profile">>,
     <<"/profile", "/create-profile">>, <<"/profile", "/home">>,
     <<"/swipe", "/home">>}

\* what the user types into the name field of the profile form
NameInputs == {<<>>, <<" ">>, <<"a">>}

\* the route shown once the page of route r has run its loader: a guarded
\* page sends a visitor who is not signed in to "/", and SwipeMatch sends a
\* user without a profile to the profile form (SwipeMatch.jsx lines 49-64)
Arrive(r) ==
    IF r \in GuardedRoutes /\ currentUser = NoUser THEN "/"
    ELSE IF r = "/swipe" /\ currentUser \notin DOMAIN users
    THEN "/create-profile"
    ELSE r

\* navigate(r): the page of r mounts with fresh state
Go(r) ==
    /\ route' = Arrive(r)
    /\ visited' = visited \cup {r, Arrive(r)}
    /\ name' = <<>>

InitAccount ==
    /\ users = <<>>
    /\ likes = EmptyBag
    /\ currentUser = NoUser
    /\ route = "/"
    /\ accounts = {}
    /\ verifiedAccounts = {}
    /\ emailVerified = FALSE
    /\ visited = {"/"}
    /\ traversed = FALSE
    /\ name = <<>>
    /\ pageMessage = ""

\* handleSignup for the email of account u, past its frontend checks:
\* createUserWithEmailAndPassword rejects for a registered email, otherwise
\* it creates the account and signs it in; sendEmailVerification resolves or
\* rejects
HandleSignupAccount(u, sent) ==
    /\ route = "/"
    /\ IF u \in accounts
       THEN /\ pageMessage' = "This email is already registered."
            /\ UNCHANGED <<accounts, currentUser, emailVerified, route,
                           visited, name>>
       ELSE /\ accounts' = accounts \cup {u}
            /\ currentUser' = u
            /\ emailVerified' = FALSE
            /\ IF sent
               THEN Go("/verify") /\ pageMessage' = ""
               ELSE /\ pageMessage' = "Could not sign up. Please try again."
                    /\ UNCHANGED <<route, visited, name>>
    /\ UNCHANGED <<users, likes, verifiedAccounts, traversed>>

\* the owner of account u opens the link of the verification email
OpenVerificationLink(u) ==
    /\ u \in accounts \ verifiedAccounts
    /\ verifiedAccounts' = verifiedAccounts \cup {u}
    /\ UNCHANGED <<firebaseVars, accounts, emailVerified, visited, traversed,
                   name, pageMessage>>

\* handleSignin with the credentials of account u (lines 124-170)
HandleSignin(u) ==
    /\ route = "/"
    /\ IF u \notin accounts
       THEN /\ pageMessage' = "No account found with this email."
            /\ UNCHANGED <<currentUser, emailVerified, route, visited, name>>
       ELSE /\ currentUser' = u
            /\ emailVerified' = (u \in verifiedAccounts)
            /\ pageMessage' = ""
            /\ Go(IF u \in verifiedAccounts THEN "/home" ELSE "/verify")
    /\ UNCHANGED <<users, likes, accounts, verifiedAccounts, traversed>>

\* handleCheckStatus: reload the signed-in user, then go to the profile
\* form if the email is verified
HandleCheckStatus ==
    /\ route = "/verify"
    /\ emailVerified' =
          IF currentUser = NoUser THEN emailVerified
          ELSE currentUser \in verifiedAccounts
    /\ IF currentUser # NoUser /\ emailVerified'
       THEN Go("/create-profile") /\ pageMessage' = ""
       ELSE /\ pageMessage' =
                  "Not verified yet. Please click the link in your email."
            /\ UNCHANGED <<route, visited, name>>
    /\ UNCHANGED <<users, likes, currentUser, accounts, verifiedAccounts,
                   traversed>>

\* a button of the page shown leads to the route r
ClickLink(r) ==
    /\ <<route, r>> \in Links
    /\ Go(r)
    /\ pageMessage' = ""
    /\ UNCHANGED <<users, likes, currentUser, accounts, verifiedAccounts,
                   emailVerified, traversed>>

\* the browser goes back or forward to a route of the document's history
HistoryTraverse(r) ==
    /\ r \in visited \ {route}
    /\ Go(r)
    /\ traversed' = TRUE
    /\ pageMessage' = ""
    /\ UNCHANGED <<users, likes, currentUser, accounts, verifiedAccounts,
                   emailVerified>>

\* handleLogout (Home.jsx lines 69-77)
HandleLogout ==
    /\ route = "/home"
    /\ currentUser' = NoUser
    /\ emailVerified' = FALSE
    /\ Go("/")
    /\ pageMessage' = ""
    /\ UNCHANGED <<users, likes, accounts, verifiedAccounts, traversed>>

\* the user types into the name field of the profile form
TypeName(t) ==
    /\ route = "/create-profile"
    /\ t # name
    /\ name' = t
    /\ UNCHANGED <<firebaseVars, accounts, verifiedAccounts, emailVerified,
                   visited, traversed, pageMessage>>

\* setDoc(users/uid, data, {merge: true}) with the data of ProfileOf
SetUserDoc(coll, u) ==
    [x \in DOMAIN coll \cup {u} |-> IF x = u THEN ProfileOf(u) ELSE coll[x]]

\* handleSaveProfile (CreateProfile.jsx lines 184-227); setDoc resolves or
\* rejects
HandleSaveProfile(saved) ==
    /\ route = "/create-profile"
    /\ IF currentUser = NoUser
       THEN /\ pageMessage' = "You must be logged in."
            /\ UNCHANGED <<users, route, visited, name>>
       ELSE IF Trim(name) = <<>>
       THEN /\ pageMessage' = "Please enter your name."
            /\ UNCHANGED <<users, route, visited, name>>
       ELSE IF saved
       THEN /\ users' = SetUserDoc(users, currentUser)
            /\ Go("/home")
            /\ pageMessage' = ""
       ELSE /\ pageMessage' =
                  "Could not save your profile. Please try again."
            /\ UNCHANGED <<users, route, visited, name>>
    /\ UNCHANGED <<likes, currentUser, accounts, verifiedAccounts,
                   emailVerified, traversed>>

\* C30: only accounts with a verified email take part in matching: a
\* users/{uid} document is written by handleSaveProfile only when the
\* signed-in account's email is verified, so every profile that SwipeMatch
\* can show belongs to a verified account, over any sequence of sign-up,
\* sign-in, verification check and page navigation.
C30_OnlyVerifiedAccountsHaveProfiles ==
    \A u \in DOMAIN users : u \in verifiedAccounts

\* the same statement for the runs in which the browser never went back or
\* forward in the history: the buttons of the pages alone lead an account
\* to the profile form only after handleCheckStatus or handleSignin has seen
\* its email verified
VerifiedWithoutHistoryTraversal ==
    ~traversed => C30_OnlyVerifiedAccountsHaveProfiles

\* a verified account has saved its profile without any history traversal
VerifiedProfileSaved ==
    /\ ~traversed
    /\ \E u \in DOMAIN users : u \in verifiedAccounts

(***************************************************************************)
(* The loaders of the protected pages, up to the end of their store        *)
(* accesses: Home.jsx 33-61, SwipeMatch.jsx 46-101, Matches                *)
(* (src/unnamed/part_001) 36-90, Messages.jsx 31-85, Chat.jsx 54-119,      *)
(* CreateProfile.jsx 76-117 and ProfilePreview (src/src/firebase.js        *)
(* 71-97).  storeOps lists the reads and writes the page has issued.       *)
(***************************************************************************)
ProtectedPages ==
    {"Home", "SwipeMatch", "Matches", "Messages", "Chat", "CreateProfile",
     "ProfilePreview"}

PageRoute(pg) ==
    CASE pg = "Home" -> "/home"
      [] pg = "SwipeMatch" -> "/swipe"
      [] pg = "Matches" -> "/matches"
      [] pg = "Messages" -> "/messages"
      [] pg = "Chat" -> "/chat"
      [] pg = "CreateProfile" -> "/create-profile"
      [] OTHER -> "/profile"

\* the pages whose test of auth.currentUser stands inside a try block with
\* `finally { setLoading(false) }`
GuardInsideFinally == {"Home", "SwipeMatch", "Matches", "Messages"}

StoreOp(op, coll, key) == [op |-> op, coll |-> coll, key |-> key]

\* the first access of the loader of pg for the user u: the likes u sent
\* (Matches, Messages), the profile of the partner (Chat), the profile of u
FirstOp(pg, u, partner) ==
    CASE pg \in {"Matches", "Messages"} -> StoreOp("getDocs", "likes", u)
      [] pg = "Chat" -> StoreOp("getDoc", "users", partner)
      [] OTHER -> StoreOp("getDoc", "users", u)

\* the accesses that follow when the first one has resolved
NextOps(pg, u, partner) ==
    CASE pg \in {"Matches", "Messages"} ->
            <<StoreOp("getDocs", "likes", u)>>
      [] pg = "Chat" ->
            IF partner \in DOMAIN users
            THEN <<StoreOp("setDoc", "chats", ChatDocId(u, partner)),
                   StoreOp("onSnapshot", "messages", ChatDocId(u, partner))>>
            ELSE <<>>
      [] pg = "SwipeMatch" ->
            IF u \in DOMAIN users
            THEN <<StoreOp("getDocs", "users", "all")>>
            ELSE <<>>
      [] OTHER -> <<>>

\* `if (!auth.currentUser)` of the loader of pg, tested only on some pages
SignedOut_NotOnProfilePreview(pg) ==
    pg # "ProfilePreview" /\ currentUser = NoUser

\* `if (!auth.currentUser)` at the head of the loader of pg
SignedOut(pg) == currentUser = NoUser

InitGuard ==
    /\ users = <<>>
    /\ likes = EmptyBag
    /\ currentUser \in Uids \cup {NoUser}
    /\ openPage \in ProtectedPages
    /\ route = PageRoute(openPage)
    /\ partnerUid \in (IF openPage = "Chat" THEN ChatPartners ELSE {NoUid})
    /\ guardPc = "mount"
    /\ pageLoading = TRUE
    /\ storeOps = <<>>

\* a write of another client, before or while the page loads
GuardStoreWrite(write) ==
    /\ write
    /\ BagCardinality(likes') <= MaxChatLikes
    /\ UNCHANGED <<openPage, partnerUid, guardPc, pageLoading, storeOps>>

\* the effect of the page runs its loader up to the first await
LoaderStart ==
    /\ guardPc = "mount"
    /\ IF SignedOut(openPage)
       THEN /\ route' = "/"
            /\ guardPc' = "done"
            /\ pageLoading' = IF openPage \in GuardInsideFinally
                              THEN FALSE ELSE pageLoading
            /\ UNCHANGED storeOps
       ELSE IF openPage = "Chat" /\ partnerUid \in {NoUid, currentUser}
       THEN /\ guardPc' = "done"
            /\ pageLoading' = FALSE
            /\ UNCHANGED <<route, storeOps>>
       ELSE /\ guardPc' = "first"
            /\ storeOps' =
                  Append(storeOps, FirstOp(openPage, currentUser, partnerUid))
            /\ UNCHANGED <<route, pageLoading>>
    /\ UNCHANGED <<users, likes, currentUser, openPage, partnerUid>>

\* the first access resolves and the loader runs to its end
LoaderContinues ==
    /\ guardPc = "first"
    /\ guardPc' = "done"
    /\ storeOps' = storeOps \o NextOps(openPage, currentUser, partnerUid)
    /\ route' = IF openPage = "SwipeMatch" /\ currentUser \notin DOMAIN users
                THEN "/create-profile" ELSE route
    /\ pageLoading' = FALSE
    /\ UNCHANGED <<users, likes, currentUser, openPage, partnerUid>>

\* the first access rejects: the catch block of the loader
LoaderFails ==
    /\ guardPc = "first"
    /\ guardPc' = "done"
    /\ pageLoading' = FALSE
    /\ UNCHANGED <<firebaseVars, openPage, partnerUid, storeOps>>

\* C21: every protected page (Home, SwipeMatch, Matches, Messages, Chat,
\* CreateProfile, ProfilePreview), when opened with no signed-in user,
\* navigates to "/" and performs no read or write on the document store.
C21_SignedOutPageRedirectsWithoutStoreAccess ==
    currentUser = NoUser
       => /\ storeOps = <<>>
          /\ guardPc \in {"mount", "done"}
          /\ guardPc = "done" => route = "/"
          /\ guardPc = "mount" => route = PageRoute(openPage)

\* ProfilePreview was opened by a visitor who is not signed in, while the
\* store holds profiles: the loader has returned
C21_Witness ==
    /\ currentUser = NoUser
    /\ openPage = "ProfilePreview"
    /\ guardPc = "done"
    /\ route = "/"
    /\ users # <<>>
    /\ storeOps = <<>>

\* a signed-in user's page does read the store
SignedInPageReads ==
    /\ currentUser # NoUser
    /\ openPage = "Chat"
    /\ Len(storeOps) = 3

(***************************************************************************)
(* Specifications.  Each one runs one part of the program and leaves the   *)
(* others idle.                                                            *)
(***************************************************************************)
ScoreIdle ==
    /\ me = Profile(BUndefined, LUndefined, LUndefined)
    /\ other = Profile(BUndefined, LUndefined, LUndefined)
    /\ sub = NoSub
    /\ matchScore = Null
    /\ fault = FALSE
    /\ pc = "idle"

RankIdle ==
    /\ records = <<>>
    /\ arrays = <<>>
    /\ myProfile = 0
    /\ others = 0
    /\ ranked = 0
    /\ rankPc = "idle"

FirebaseIdle ==
    /\ users = <<>>
    /\ likes = EmptyBag
    /\ currentUser = NoUser
    /\ route = "/"

SwipeIdle ==
    /\ swipePc = "idle"
    /\ myData = Null
    /\ profiles = <<>>
    /\ currentIndex = 0
    /\ loading = TRUE
    /\ swipeErrorMsg = ""
    /\ lastAction = ""
    /\ pendingLike = <<>>

MatchesIdle ==
    /\ page = "Matches"
    /\ matchesPc = "idle"
    /\ iLikedSet = {}
    /\ likedMeSet = {}
    /\ mutualIds = {}
    /\ results = <<>>
    /\ matches = <<>>
    /\ matchesLoading = TRUE
    /\ matchesErrorMsg = ""
    /\ storeWritten = FALSE

ChatIdle ==
    /\ uid1 = <<>>
    /\ uid2 = <<>>
    /\ chatId = ChatIdNull
    /\ chatPc = "idle"

SignupIdle ==
    /\ signUpEmail = <<>>
    /\ signUpPassword = <<>>
    /\ signupErrorMsg = ""
    /\ signupLoading = FALSE
    /\ createRequest = NoRequest
    /\ signupRoute = "/"
    /\ signupPc = "idle"

ChatPageIdle ==
    /\ mounted = FALSE
    /\ otherUid = NoUid
    /\ chatIdState = NoChat
    /\ otherProfile = NoUid
    /\ messages = <<>>
    /\ newMessage = <<>>
    /\ chatLoading = TRUE
    /\ chatErrorMsg = ""
    /\ effects = <<>>
    /\ chats = {}
    /\ messageDocs = <<>>
    /\ pendingSend = <<>>

AccountIdle ==
    /\ accounts = {}
    /\ verifiedAccounts = {}
    /\ emailVerified = FALSE
    /\ visited = {"/"}
    /\ traversed = FALSE
    /\ name = <<>>
    /\ pageMessage = ""

GuardIdle ==
    /\ openPage = "Home"
    /\ partnerUid = NoUid
    /\ guardPc = "idle"
    /\ pageLoading = TRUE
    /\ storeOps = <<>>

restOfScore == <<firebaseVars, rankVars, swipeVars, matchesVars, chatVars,
                 signupVars, chatPageVars, accountVars, guardVars>>

StartScore ==
    /\ FirebaseIdle
    /\ RankIdle
    /\ SwipeIdle
    /\ MatchesIdle
    /\ ChatIdle
    /\ SignupIdle
    /\ ChatPageIdle
    /\ AccountIdle
    /\ GuardIdle
    /\ InitScore

NextScore ==
    \/ CalculateMatchScore /\ UNCHANGED restOfScore

SpecScore == StartScore /\ [][NextScore]_vars

restOfRank == <<firebaseVars, scoreVars, swipeVars, matchesVars, chatVars,
                signupVars, chatPageVars, accountVars, guardVars>>

StartRank ==
    /\ FirebaseIdle
    /\ ScoreIdle
    /\ SwipeIdle
    /\ MatchesIdle
    /\ ChatIdle
    /\ SignupIdle
    /\ ChatPageIdle
    /\ AccountIdle
    /\ GuardIdle
    /\ InitRank

NextRank ==
    \/ RankProfilesWithMatchScore /\ UNCHANGED restOfRank

SpecRank == StartRank /\ [][NextRank]_vars

restOfSwipe == <<scoreVars, rankVars, matchesVars, chatVars, signupVars,
                 chatPageVars, accountVars, guardVars>>

StartSwipe ==
    /\ ScoreIdle
    /\ RankIdle
    /\ MatchesIdle
    /\ ChatIdle
    /\ SignupIdle
    /\ ChatPageIdle
    /\ AccountIdle
    /\ GuardIdle
    /\ InitSwipe

\* one visit of the SwipeMatch page, while other clients write to the store
NextSwipe ==
    \/ (\E u \in Uids :
           ClientSaveProfile(u) /\ UNCHANGED swipeVars) /\ UNCHANGED restOfSwipe
    \/ (\E u \in Uids, v \in Uids :
           ClientConnect(u, v) /\ UNCHANGED swipeVars) /\ UNCHANGED restOfSwipe
    \/ LoadDataStart /\ UNCHANGED restOfSwipe
    \/ LoadDataFails /\ UNCHANGED restOfSwipe
    \/ LoadDataGetMy /\ UNCHANGED restOfSwipe
    \/ LoadDataGetAll /\ UNCHANGED restOfSwipe
    \/ HandleSkip /\ UNCHANGED restOfSwipe
    \/ HandleConnect /\ UNCHANGED restOfSwipe
    \/ HandleConnectResolves /\ UNCHANGED restOfSwipe
    \/ HandleConnectRejects /\ UNCHANGED restOfSwipe

SpecSwipe == StartSwipe /\ [][NextSwipe]_vars

restOfMatches == <<scoreVars, rankVars, swipeVars, chatVars, signupVars,
                   chatPageVars, accountVars, guardVars>>

StartMatches ==
    /\ ScoreIdle
    /\ RankIdle
    /\ SwipeIdle
    /\ ChatIdle
    /\ SignupIdle
    /\ ChatPageIdle
    /\ AccountIdle
    /\ GuardIdle
    /\ InitMatches

\* one visit of the Matches or the Messages page, while clients (the
\* current user's own SwipeMatch page among them) write to the store
NextMatches ==
    \/ (\E u \in Uids : StoreWrite(ClientSaveProfile(u))) /\ UNCHANGED restOfMatches
    \/ (\E u \in Uids, v \in Uids : StoreWrite(ClientConnect(u, v))) /\ UNCHANGED restOfMatches
    \/ LoadMatchesStart /\ UNCHANGED restOfMatches
    \/ LoadMatchesFails /\ UNCHANGED restOfMatches
    \/ LoadMatchesLikesSent /\ UNCHANGED restOfMatches
    \/ LoadMatchesLikesToMe /\ UNCHANGED restOfMatches
    \/ LoadMatchesProfile /\ UNCHANGED restOfMatches

SpecMatches == StartMatches /\ [][NextMatches]_vars

restOfChatId == <<firebaseVars, scoreVars, rankVars, swipeVars, matchesVars,
                  signupVars, chatPageVars, accountVars, guardVars>>

StartChatId ==
    /\ FirebaseIdle
    /\ ScoreIdle
    /\ RankIdle
    /\ SwipeIdle
    /\ MatchesIdle
    /\ SignupIdle
    /\ ChatPageIdle
    /\ AccountIdle
    /\ GuardIdle
    /\ InitChatId

NextChatId ==
    \/ GetChatId /\ UNCHANGED restOfChatId

SpecChatId == StartChatId /\ [][NextChatId]_vars

restOfSignup == <<firebaseVars, scoreVars, rankVars, swipeVars, matchesVars,
                  chatVars, chatPageVars, accountVars, guardVars>>

StartSignup ==
    /\ FirebaseIdle
    /\ ScoreIdle
    /\ RankIdle
    /\ SwipeIdle
    /\ MatchesIdle
    /\ ChatIdle
    /\ ChatPageIdle
    /\ AccountIdle
    /\ GuardIdle
    /\ InitSignup

NextSignup ==
    \/ HandleSignup /\ UNCHANGED restOfSignup
    \/ CreateUserResolves /\ UNCHANGED restOfSignup
    \/ SendVerificationResolves /\ UNCHANGED restOfSignup
    \/ SignupRejects /\ UNCHANGED restOfSignup

SpecSignup == StartSignup /\ [][NextSignup]_vars

restOfChat == <<scoreVars, rankVars, swipeVars, matchesVars, chatVars,
                signupVars, accountVars, guardVars>>

StartChat ==
    /\ ScoreIdle
    /\ RankIdle
    /\ SwipeIdle
    /\ MatchesIdle
    /\ ChatIdle
    /\ SignupIdle
    /\ AccountIdle
    /\ GuardIdle
    /\ InitChat

\* one visit of the Chat page, while other clients write to the store
NextChat ==
    \/ (\E u \in Uids : ChatStoreWrite(ClientSaveProfile(u))) /\ UNCHANGED restOfChat
    \/ (\E u \in Uids, v \in Uids : ChatStoreWrite(ClientConnect(u, v))) /\ UNCHANGED restOfChat
    \/ ChatMount /\ UNCHANGED restOfChat
    \/ (\E v \in ChatPartners : ParamChange(v)) /\ UNCHANGED restOfChat
    \/ ChatUnmount /\ UNCHANGED restOfChat
    \/ (\E i \in 1..MaxEffects : SetupChatGetDoc(i)) /\ UNCHANGED restOfChat
    \/ (\E i \in 1..MaxEffects : SetupChatSetDoc(i)) /\ UNCHANGED restOfChat
    \/ (\E i \in 1..MaxEffects : SetupChatFails(i)) /\ UNCHANGED restOfChat
    \/ (\E i \in 1..MaxEffects : OnSnapshot(i)) /\ UNCHANGED restOfChat
    \/ (\E t \in MessageInputs : TypeMessage(t)) /\ UNCHANGED restOfChat
    \/ HandleSend /\ UNCHANGED restOfChat
    \/ HandleSendResolves /\ UNCHANGED restOfChat
    \/ HandleSendRejects /\ UNCHANGED restOfChat

SpecChat == StartChat /\ [][NextChat]_vars

restOfAccount == <<scoreVars, rankVars, swipeVars, matchesVars, chatVars,
                   signupVars, chatPageVars, guardVars>>

StartAccount ==
    /\ ScoreIdle
    /\ RankIdle
    /\ SwipeIdle
    /\ MatchesIdle
    /\ ChatIdle
    /\ SignupIdle
    /\ ChatPageIdle
    /\ GuardIdle
    /\ InitAccount

\* the users of one browser document sign up, sign in, verify and navigate
NextAccount ==
    \/ (\E u \in AccountUids, sent \in BOOLEAN : HandleSignupAccount(u, sent)) /\ UNCHANGED restOfAccount
    \/ (\E u \in AccountUids : OpenVerificationLink(u)) /\ UNCHANGED restOfAccount
    \/ (\E u \in AccountUids : HandleSignin(u)) /\ UNCHANGED restOfAccount
    \/ HandleCheckStatus /\ UNCHANGED restOfAccount
    \/ (\E r \in Routes : ClickLink(r)) /\ UNCHANGED restOfAccount
    \/ (\E r \in Routes : HistoryTraverse(r)) /\ UNCHANGED restOfAccount
    \/ HandleLogout /\ UNCHANGED restOfAccount
    \/ (\E t \in NameInputs : TypeName(t)) /\ UNCHANGED restOfAccount
    \/ (\E saved \in BOOLEAN : HandleSaveProfile(saved)) /\ UNCHANGED restOfAccount

SpecAccount == StartAccount /\ [][NextAccount]_vars

restOfGuard == <<scoreVars, rankVars, swipeVars, matchesVars, chatVars,
                 signupVars, chatPageVars, accountVars>>

StartGuard ==
    /\ ScoreIdle
    /\ RankIdle
    /\ SwipeIdle
    /\ MatchesIdle
    /\ ChatIdle
    /\ SignupIdle
    /\ ChatPageIdle
    /\ AccountIdle
    /\ InitGuard

\* one protected page is opened, while other clients write to the store
NextGuard ==
    \/ (\E u \in Uids : GuardStoreWrite(ClientSaveProfile(u))) /\ UNCHANGED restOfGuard
    \/ (\E u \in Uids, v \in Uids : GuardStoreWrite(ClientConnect(u, v))) /\ UNCHANGED restOfGuard
    \/ LoaderStart /\ UNCHANGED restOfGuard
    \/ LoaderContinues /\ UNCHANGED restOfGuard
    \/ LoaderFails /\ UNCHANGED restOfGuard

SpecGuard == StartGuard /\ [][NextGuard]_vars

=============================================================================
